---- MODULE Spec2Model ----
(***************************************************************************)
(* Model of jiramd's synchronization state engine:                         *)
(*   - domain.TicketState (MarkLocalModified / DetectConflict /            *)
(*     UpdateSynced) over domain.SyncTimestamp,                            *)
(*   - sqlite.StateRepository (ticket state rows and the transaction       *)
(*     bracket BeginTransaction / Commit / Rollback).                      *)
(***************************************************************************)
EXTENDS Integers, Sequences, FiniteSets, TLC

(***************************************************************************)
(* Bounds                                                                  *)
(***************************************************************************)
\* instants are 0..MaxTime
MaxTime == 3

(***************************************************************************)
(* time.Time and domain.SyncTimestamp                                      *)
(***************************************************************************)
\* the nil pointer (*SyncTimestamp)
NIL == [nil |-> TRUE]

Locations == {"UTC", "Local"}

\* a time.Time: an instant and the location it is presented in
Times == [inst : 0..MaxTime, loc : Locations]

\* time.Time.UTC(): same instant, location UTC
UTC(t) == [inst |-> t.inst, loc |-> "UTC"]

\* NewSyncTimestamp normalizes to UTC
NewSyncTimestamp(t) == [value |-> UTC(t)]

SyncTimestamps == {NewSyncTimestamp(t) : t \in Times}

AfterLoose(st, other) == st.value.inst >= other.value.inst

\* SyncTimestamp.After: time.Time.After compares instants, strictly
After(st, other) == st.value.inst > other.value.inst

\* time.Now() when the clock shows instant n (local time)
TimeNow(n) == [inst |-> n, loc |-> "Local"]

(***************************************************************************)
(* domain.SyncStatus, domain.TicketState                                   *)
(***************************************************************************)
SyncStatusInSync == "in_sync"
SyncStatusLocalModified == "local_modified"
SyncStatusRemoteModified == "remote_modified"
SyncStatusConflict == "conflict"
SyncStatusPending == "pending"
SyncStatusError == "error"

SyncStatuses == {SyncStatusInSync, SyncStatusLocalModified, SyncStatusRemoteModified,
                 SyncStatusConflict, SyncStatusPending, SyncStatusError}

\* content hashes handed to UpdateSynced ("" is the hash of a new state)
Hashes == {"", "h1"}

TicketStates == [ProjectKey : {"JMD"}, TicketKey : {"JMD-100"},
                 JiraUpdated : SyncTimestamps,
                 LocalModified : SyncTimestamps \cup {NIL},
                 LastSynced : SyncTimestamps,
                 ContentHash : Hashes,
                 Status : SyncStatuses]

\* NewTicketState(projectKey, ticketKey, jiraUpdated) at clock instant n
NewTicketState(projectKey, ticketKey, jiraUpdated, n) ==
    [ProjectKey |-> projectKey, TicketKey |-> ticketKey,
     JiraUpdated |-> NewSyncTimestamp(jiraUpdated),
     LocalModified |-> NIL,
     LastSynced |-> NewSyncTimestamp(TimeNow(n)),
     ContentHash |-> "",
     Status |-> SyncStatusInSync]

MarkLocalModifiedKeepConflict(t, modifiedAt) ==
    [t EXCEPT !.LocalModified = NewSyncTimestamp(modifiedAt),
              !.Status = IF t.Status = SyncStatusConflict THEN SyncStatusConflict
                         ELSE SyncStatusLocalModified]

MarkLocalModifiedNoStatus(t, modifiedAt) ==
    [t EXCEPT !.LocalModified = NewSyncTimestamp(modifiedAt)]

\* TicketState.MarkLocalModified: the state after the call
MarkLocalModified(t, modifiedAt) ==
    [t EXCEPT !.LocalModified = NewSyncTimestamp(modifiedAt),
              !.Status = SyncStatusLocalModified]

DetectConflictLoose(t) ==
    IF t.LocalModified = NIL
    THEN [ret |-> FALSE, ts |-> t]
    ELSE IF AfterLoose(t.LocalModified, t.LastSynced) /\ AfterLoose(t.JiraUpdated, t.LastSynced)
         THEN [ret |-> TRUE, ts |-> [t EXCEPT !.Status = SyncStatusConflict]]
         ELSE [ret |-> FALSE, ts |-> t]

DetectConflictRemoteOnly(t) ==
    IF After(t.JiraUpdated, t.LastSynced)
       /\ (t.LocalModified = NIL \/ After(t.LocalModified, t.LastSynced))
    THEN [ret |-> TRUE, ts |-> [t EXCEPT !.Status = SyncStatusConflict]]
    ELSE [ret |-> FALSE, ts |-> t]

DetectConflictNoStatus(t) ==
    IF t.LocalModified = NIL
    THEN [ret |-> FALSE, ts |-> t]
    ELSE [ret |-> After(t.LocalModified, t.LastSynced) /\ After(t.JiraUpdated, t.LastSynced),
          ts |-> t]

DetectConflictDowngrade(t) ==
    IF t.LocalModified = NIL
    THEN [ret |-> FALSE, ts |-> t]
    ELSE IF After(t.LocalModified, t.LastSynced) /\ After(t.JiraUpdated, t.LastSynced)
         THEN [ret |-> TRUE, ts |-> [t EXCEPT !.Status = SyncStatusConflict]]
         ELSE [ret |-> FALSE, ts |-> [t EXCEPT !.Status = SyncStatusLocalModified]]

DetectConflictAutoResolve(t) ==
    IF t.LocalModified = NIL
    THEN [ret |-> FALSE, ts |-> t]
    ELSE IF After(t.LocalModified, t.LastSynced) /\ After(t.JiraUpdated, t.LastSynced)
         THEN [ret |-> TRUE, ts |-> [t EXCEPT !.Status = SyncStatusConflict]]
         ELSE [ret |-> FALSE,
               ts |-> [t EXCEPT !.LocalModified = NIL, !.Status = SyncStatusInSync]]

DetectConflictMarksSynced(t) ==
    IF t.LocalModified = NIL
    THEN [ret |-> FALSE, ts |-> t]
    ELSE IF After(t.LocalModified, t.LastSynced) /\ After(t.JiraUpdated, t.LastSynced)
         THEN [ret |-> TRUE, ts |-> [t EXCEPT !.Status = SyncStatusConflict,
                                              !.LastSynced = t.JiraUpdated]]
         ELSE [ret |-> FALSE, ts |-> t]

\* TicketState.DetectConflict: the returned value and the state after the call
DetectConflict(t) ==
    IF t.LocalModified = NIL
    THEN [ret |-> FALSE, ts |-> t]
    ELSE LET localModifiedAfterSync == After(t.LocalModified, t.LastSynced)
             jiraModifiedAfterSync == After(t.JiraUpdated, t.LastSynced)
         IN  IF localModifiedAfterSync /\ jiraModifiedAfterSync
             THEN [ret |-> TRUE, ts |-> [t EXCEPT !.Status = SyncStatusConflict]]
             ELSE [ret |-> FALSE, ts |-> t]

UpdateSyncedKeepConflict(t, contentHash, jiraUpdated, n) ==
    [t EXCEPT !.LastSynced = NewSyncTimestamp(TimeNow(n)),
              !.ContentHash = contentHash,
              !.JiraUpdated = NewSyncTimestamp(jiraUpdated),
              !.LocalModified = IF t.Status = SyncStatusConflict THEN t.LocalModified ELSE NIL,
              !.Status = IF t.Status = SyncStatusConflict THEN SyncStatusConflict
                         ELSE SyncStatusInSync]

\* TicketState.UpdateSynced at clock instant n: the state after the call
UpdateSynced(t, contentHash, jiraUpdated, n) ==
    [t EXCEPT !.LastSynced = NewSyncTimestamp(TimeNow(n)),
              !.ContentHash = contentHash,
              !.JiraUpdated = NewSyncTimestamp(jiraUpdated),
              !.LocalModified = NIL,
              !.Status = SyncStatusInSync]

(***************************************************************************)
(* State                                                                   *)
(***************************************************************************)
VARIABLES
    ts,     \* the TicketState a caller holds
    now,    \* the instant the wall clock shows
    last,   \* the last call on ts: operation, arguments, result, state before
    scen    \* progress of the end-to-end lifecycle scenario: stage and t0

tsVars == <<ts, now, last, scen>>

(***************************************************************************)
(* domain.PendingOperation                                                 *)
(***************************************************************************)
\* pending operations a run creates
MaxOps == 2

\* RecordAttempt calls a run makes on one operation
MaxRecorded == 4

\* const maxRetries in ShouldRetry
maxRetries == 3

OpPushStatus == "push_status"
OpPullTicket == "pull_ticket"

\* OperationType values passed to NewPendingOperation; "invalid" is none of
\* the five declared ones
OperationTypes == {OpPushStatus, OpPullTicket, "invalid"}

\* a nil error
OK == "ok"

ErrInvalidOperation == "ErrInvalidOperation"

\* errors passed to RecordAttempt: nil, or ErrSyncConflict
ErrSyncConflict == "sync conflict detected"

AttemptErrors == {OK, ErrSyncConflict, ErrInvalidOperation}

\* no *PendingOperation
NoOp == [absent |-> TRUE]

\* NewPendingOperation("JMD", key, operation, "{}"): the operation and nil, or
\* nil and ErrInvalidOperation
NewPendingOperation(operation) ==
    IF operation \in {OpPushStatus, OpPullTicket}
    THEN [po |-> [Operation |-> operation, Attempts |-> 0, LastError |-> ""],
          err |-> OK]
    ELSE [po |-> NoOp, err |-> ErrInvalidOperation]

RecordAttemptOnFailureOnly(po, err) ==
    [po EXCEPT !.Attempts = IF err = OK THEN @ ELSE @ + 1,
               !.LastError = IF err = OK THEN @ ELSE err]

RecordAttemptClearsError(po, err) ==
    [po EXCEPT !.Attempts = @ + 1, !.LastError = IF err # OK THEN err ELSE ""]

\* po.RecordAttempt(err)
RecordAttempt(po, err) ==
    [po EXCEPT !.Attempts = @ + 1,
               !.LastError = IF err # OK THEN err ELSE @]

ShouldRetryInclusive(po) == po.Attempts <= maxRetries

\* po.ShouldRetry()
ShouldRetry(po) == po.Attempts < maxRetries

VARIABLES
    ops,    \* the pending operations by ID: a PendingOperation or NoOp
    pmon,   \* observer, by ID: RecordAttempt calls made, executions by the
            \* retry loop
    pcall   \* the last call on a pending operation: name, ID, error, result

poVars == <<ops, pmon, pcall>>

PCall(op, id, err, ret) == [op |-> op, id |-> id, err |-> err, ret |-> ret]

InitPending ==
    /\ ops = [i \in 1..MaxOps |-> NoOp]
    /\ pmon = [i \in 1..MaxOps |-> [recorded |-> 0, execs |-> 0]]
    /\ pcall = PCall("none", 0, OK, FALSE)

(***************************************************************************)
(* sqlite.StateRepository: timestamps as stored text                       *)
(***************************************************************************)
\* transactions a run may begin
MaxTx == 2

\* DefaultConfig().MaxOpenConns: the pool holds one connection
MaxOpenConns == 1

\* time.Time values handed to the store: the zero time, or an instant given
\* in milliseconds since the epoch plus a sub-millisecond rest, in a location
ZeroT == [zero |-> TRUE, ms |-> 0, frac |-> 0, loc |-> "UTC"]

At(ms, frac, loc) == [zero |-> FALSE, ms |-> ms, frac |-> frac, loc |-> loc]

\* time.Time.IsZero
IsZero(t) == t.zero

\* column texts: "1970-01-01 00:00:00" (layout sec), a text of layout
\* "2006-01-02 15:04:05.000" (layout ms), an RFC 3339 text (layout rfc3339)
SentinelText == [layout |-> "sec", ms |-> 0]

MsText(ms) == [layout |-> "ms", ms |-> ms]

Rfc3339Text(ms) == [layout |-> "rfc3339", ms |-> ms]

EmptyText == [layout |-> "empty", ms |-> 0]

\* formatTimestamp: the zero time becomes the sentinel text, any other time
\* its UTC instant cut to milliseconds
formatTimestamp(t) ==
    IF IsZero(t) THEN SentinelText ELSE MsText(t.ms)

\* parseTimestamp: the empty text and the sentinel give the zero time; a text
\* in one of the three layouts gives its instant in UTC
parseTimestamp(s) ==
    IF s = EmptyText \/ s = SentinelText
    THEN ZeroT
    ELSE At(s.ms, 0, "UTC")

\* how the driver renders TIMESTAMP columns for Scan into a string: the
\* stored text itself, or re-rendered as RFC 3339 ("what SQLite may return")
Renderings == {"stored", "rfc3339"}

\* what Scan hands back for a TIMESTAMP column holding text s
ScanText(s, rendering) ==
    IF rendering = "rfc3339" THEN Rfc3339Text(s.ms) ELSE s

(***************************************************************************)
(* sqlite.StateRepository: keys and the LIKE operator                      *)
(***************************************************************************)
\* keys are strings, written as sequences of characters
EmptyKey == << >>

KeyJMD == <<"J", "M", "D">>
KeyJ_D == <<"J", "_", "D">>
KeyJMD1 == <<"J", "M", "D", "-", "1">>
KeyOTHER1 == <<"O", "T", "H", "E", "R", "-", "1">>

TicketKeys == {KeyJMD1, KeyOTHER1}

\* goroutines that call SaveTicketState concurrently
MaxSavers == 2

\* the key the idx-th goroutine saves when every goroutine has its own key
KeyOfSaver(idx) == <<"J", "M", "D", "-", <<"1", "2", "3", "4">>[idx]>>

SaverKeys == {KeyOfSaver(idx) : idx \in 1..MaxSavers}

\* the keys table ticket_sync_state can hold a row for
StoredTicketKeys == TicketKeys \cup SaverKeys

ProjectKeys == {KeyJMD, KeyJ_D}

\* SQLite folds ASCII letters before LIKE compares them
Fold(c) ==
    CASE c = "j" -> "J"
      [] c = "m" -> "M"
      [] c = "d" -> "D"
      [] OTHER -> c

\* text LIKE pattern: % matches any run of characters, _ any one character,
\* every other character itself without regard to ASCII case
RECURSIVE Like(_, _)
Like(text, pattern) ==
    IF pattern = << >>
    THEN text = << >>
    ELSE IF Head(pattern) = "%"
    THEN Like(text, Tail(pattern)) \/ (text # << >> /\ Like(Tail(text), pattern))
    ELSE /\ text # << >>
         /\ (Head(pattern) = "_" \/ Fold(Head(pattern)) = Fold(Head(text)))
         /\ Like(Tail(text), Tail(pattern))

(***************************************************************************)
(* sqlite.StateRepository: rows, tables, contexts                          *)
(***************************************************************************)
\* repository.TicketSyncState values passed to SaveTicketState
TicketSyncState(key, ls, lml, lmj, dirty, conflict) ==
    [TicketKey |-> key, LastSynced |-> ls, LastModifiedLocal |-> lml,
     LastModifiedJira |-> lmj, IsDirty |-> dirty, ConflictDetected |-> conflict]

SampleStates(key) ==
    {TicketSyncState(key, At(2, 0, "UTC"), ZeroT, At(0, 0, "UTC"), FALSE, FALSE),
     TicketSyncState(key, At(1, 1, "Local"), At(1, 0, "Local"), At(2, 0, "UTC"), TRUE, TRUE)}

\* repository.ProjectSyncState values passed to SaveProjectState
ProjectSyncState(key, full, incr, count) ==
    [ProjectKey |-> key, LastFullSync |-> full, LastIncrementalSync |-> incr,
     TicketCount |-> count]

SampleProjectStates(key) ==
    {ProjectSyncState(key, At(1, 1, "Local"), ZeroT, 2)}

\* a nil *TicketSyncState or *ProjectSyncState
NilState == [nilState |-> TRUE]

\* no row for a key
NoRow == [absent |-> TRUE]

\* SQL NULL
Null == [null |-> TRUE]

\* formatTimestampNullable: NULL for the zero time
formatTimestampNullable(t) ==
    IF IsZero(t) THEN Null ELSE formatTimestamp(t)

\* the row INSERT ... ON CONFLICT DO UPDATE writes for a ticket state
\* (created_at / updated_at are not read by any query and are left out)
TicketRow(state) ==
    [last_synced |-> formatTimestamp(state.LastSynced),
     last_modified_local |-> formatTimestamp(state.LastModifiedLocal),
     last_modified_jira |-> formatTimestamp(state.LastModifiedJira),
     is_dirty |-> state.IsDirty,
     conflict_detected |-> state.ConflictDetected]

\* the row INSERT ... ON CONFLICT DO UPDATE writes for a project state
ProjectRow(state) ==
    [last_full_sync |-> formatTimestampNullable(state.LastFullSync),
     last_incremental_sync |-> formatTimestampNullable(state.LastIncrementalSync),
     ticket_count |-> state.TicketCount]

\* the state Scan and parseTimestamp build from a row under a rendering
ScanRow(key, row, r) ==
    TicketSyncState(key, parseTimestamp(ScanText(row.last_synced, r)),
                    parseTimestamp(ScanText(row.last_modified_local, r)),
                    parseTimestamp(ScanText(row.last_modified_jira, r)),
                    row.is_dirty, row.conflict_detected)

\* the states GetTicketState can build from a row
ScanTicketRow(key, row) == {ScanRow(key, row, r) : r \in Renderings}

\* the times a sql.NullString column gives: NULL leaves the zero time
ScanNullable(col, rendering) ==
    IF col = Null THEN ZeroT ELSE parseTimestamp(ScanText(col, rendering))

\* the states GetProjectState can build from a row
ScanProjectRow(key, row) ==
    {ProjectSyncState(key, ScanNullable(row.last_full_sync, r),
                      ScanNullable(row.last_incremental_sync, r),
                      row.ticket_count) : r \in Renderings}

\* both tables without rows
EmptyDb == [tickets |-> [k \in StoredTicketKeys |-> NoRow],
            projects |-> [k \in ProjectKeys |-> NoRow]]

\* error values
ErrInvalidInput == "ErrInvalidInput"
ErrEmptyKey == "ErrEmptyKey"
ErrNotFound == "ErrNotFound"
\* sql.ErrTxDone, wrapped without a domain error
ErrTxDone == "sql.ErrTxDone"

\* contexts: 0 is a context without a transaction, i > 0 the context returned
\* by the i-th successful BeginTransaction
BackgroundCtx == 0

VARIABLES
    mg,     \* the database file's schema_version rows and the Migrate run on it
    pf      \* the last call of a function of the domain: input and result

auxVars == <<mg, pf>>

VARIABLES
    rt,     \* the RoundTrip call of the retry transport: configuration,
            \* position, attempts made, responses, waits, cancellation
    jc,     \* the last call on the Jira repository or on mapHTTPError
    sr      \* the searchTickets call: position, offsets asked, tickets

netVars == <<rt, jc, sr>>

VARIABLES
    db,        \* tables ticket_sync_state and project_sync_state as committed
    txs,       \* the *sql.Tx handles: status and uncommitted table contents
    res,       \* the result of the last repository call
    mon,       \* observer of the last transaction: phase, the tables a read
               \* without its context has to see, its writes
    savers,    \* the goroutines calling SaveTicketState: position, argument
    conn       \* the goroutine whose statement holds the pooled connection (0: none)

storeVars == <<db, txs, res, mon>>
ccVars == <<savers, conn>>
vars == <<ts, now, last, scen, db, txs, res, mon, savers, conn, ops, pmon, pcall,
          rt, jc, sr, mg, pf>>

NoTx == [status |-> "unused", work |-> EmptyDb]

\* the last repository call: operation, context, key, error, and the state
\* returned (or, for a successful save, the state passed)
Res(op, ctx, key, err, val) ==
    [op |-> op, ctx |-> ctx, key |-> key, err |-> err, val |-> val]

NoVal == [none |-> TRUE]

\* what a transaction did last to a key: nothing, a delete, or the row saved
\* (once the transaction is finished only that a row was saved)
NotWritten == [w |-> "none"]

Deleted == [w |-> "deleted"]

Saved == [w |-> "saved"]

NoWrites == [tickets |-> [k \in StoredTicketKeys |-> NotWritten],
             projects |-> [k \in ProjectKeys |-> NotWritten]]

NoMon == [phase |-> "none", expect |-> EmptyDb, writes |-> NoWrites]

\* rows after the writes of a transaction are applied to the rows it found
AppliedRows(pre, writes) ==
    [k \in DOMAIN pre |->
        IF writes[k] = NotWritten THEN pre[k]
        ELSE IF writes[k] = Deleted THEN NoRow
        ELSE writes[k]]

\* the observer once the transaction is finished and has to leave tables t
MonFinished(phase, t) ==
    [phase |-> phase,
     expect |-> t,
     writes |-> [tickets |-> [k \in StoredTicketKeys |->
                                IF mon.writes.tickets[k] \in {NotWritten, Deleted}
                                THEN NotWritten ELSE Saved],
                 projects |-> NoWrites.projects]]

\* the tables a transaction that began on mon.expect and made mon.writes leaves
TxApplied ==
    [tickets |-> AppliedRows(mon.expect.tickets, mon.writes.tickets),
     projects |-> AppliedRows(mon.expect.projects, mon.writes.projects)]

\* the store after NewDatabase, Migrate and NewStateRepository
InitStore ==
    /\ db = EmptyDb
    /\ txs = [i \in 1..MaxTx |-> NoTx]
    /\ res = Res("NewStateRepository", BackgroundCtx, EmptyKey, OK, NoVal)
    /\ mon = NoMon
    /\ savers = [idx \in 1..MaxSavers |-> [pc |-> "idle", state |-> NilState]]
    /\ conn = 0

\* getTransaction: the handle stored in the context (0: none)
getTransaction(ctx) == ctx

isInTransactionActive(ctx) ==
    getTransaction(ctx) # 0 /\ txs[getTransaction(ctx)].status = "active"

\* isInTransaction
isInTransaction(ctx) == getTransaction(ctx) # 0

\* getExecutor: the transaction of the context, or else the database
getExecutor(ctx) == IF getTransaction(ctx) # 0 THEN "tx" ELSE "db"

\* a connection is free for db.ExecContext / db.QueryRowContext / db.BeginTx:
\* every active transaction holds one until Commit or Rollback, every
\* statement on the database while it runs
ConnFree ==
    Cardinality({i \in 1..MaxTx : txs[i].status = "active"})
        + (IF conn # 0 THEN 1 ELSE 0) < MaxOpenConns

\* contexts a caller passes: one without a transaction, or the one the latest
\* successful BeginTransaction returned
LiveContexts ==
    {0} \cup {i \in 1..MaxTx : /\ txs[i].status # "unused"
                               /\ \A j \in (i + 1)..MaxTx : txs[j].status = "unused"}

\* the tables a statement run with ctx works on
TableOf(ctx) == IF getExecutor(ctx) = "tx" THEN txs[ctx].work ELSE db

\* a statement through the executor of ctx can run now: a transaction runs on
\* its own connection, the database needs a free one
CanRun(ctx) == IF getExecutor(ctx) = "tx" THEN TRUE ELSE ConnFree

\* the statement fails with sql.ErrTxDone: its transaction is finished
TxDone(ctx) ==
    getExecutor(ctx) = "tx" /\ txs[ctx].status = "done"

\* the stored tables after statements run with ctx turned their tables into t
WriteTable(ctx, t) ==
    IF getExecutor(ctx) = "tx"
    THEN /\ txs' = [txs EXCEPT ![ctx].work = t]
         /\ UNCHANGED db
    ELSE /\ db' = t
         /\ UNCHANGED txs

\* the observer after writes with ctx that left the rows w
MonWrite(ctx, w) ==
    IF getExecutor(ctx) = "tx"
    THEN [mon EXCEPT !.writes = w]
    ELSE NoMon

(***************************************************************************)
(* sqlite.StateRepository: operations                                      *)
(***************************************************************************)
\* the lowest unused transaction handle
NextTx == CHOOSE i \in 1..MaxTx :
              /\ txs[i].status = "unused"
              /\ \A j \in 1..(i - 1) : txs[j].status # "unused"

\* r.BeginTransaction(ctx)
BeginTransaction ==
    \E ctx \in LiveContexts :
        IF isInTransaction(ctx)
        THEN /\ res' = Res("BeginTransaction", ctx, EmptyKey, ErrInvalidInput, NoVal)
             /\ UNCHANGED <<db, txs, mon>>
        ELSE /\ ConnFree
             /\ \E i \in 1..MaxTx : txs[i].status = "unused"
             /\ txs' = [txs EXCEPT ![NextTx] = [status |-> "active", work |-> db]]
             /\ res' = Res("BeginTransaction", ctx, EmptyKey, OK, [ctx |-> NextTx])
             /\ mon' = [phase |-> "intx", expect |-> db, writes |-> NoWrites]
             /\ UNCHANGED db

CommitDiscards(committed, work) == committed

\* tx.Commit(): the committed tables after the transaction's statements apply
CommitTx(committed, work) == work

RollbackKeeps(committed, work) == work

\* tx.Rollback(): the committed tables after the statements are discarded
RollbackTx(committed, work) == committed

\* r.Commit(ctx)
Commit ==
    \E ctx \in LiveContexts :
        LET tx == getTransaction(ctx) IN
        IF tx = 0
        THEN /\ res' = Res("Commit", ctx, EmptyKey, ErrInvalidInput, NoVal)
             /\ UNCHANGED <<db, txs, mon>>
        ELSE IF txs[tx].status = "active"
        THEN /\ db' = CommitTx(db, txs[tx].work)
             /\ txs' = [txs EXCEPT ![tx] = [status |-> "done", work |-> EmptyDb]]
             /\ res' = Res("Commit", ctx, EmptyKey, OK, NoVal)
             /\ mon' = MonFinished("committed", TxApplied)
        ELSE /\ res' = Res("Commit", ctx, EmptyKey, ErrTxDone, NoVal)
             /\ UNCHANGED <<db, txs, mon>>

\* r.Rollback(ctx)
Rollback ==
    \E ctx \in LiveContexts :
        LET tx == getTransaction(ctx) IN
        IF tx = 0
        THEN /\ res' = Res("Rollback", ctx, EmptyKey, ErrInvalidInput, NoVal)
             /\ UNCHANGED <<db, txs, mon>>
        ELSE IF txs[tx].status = "active"
        THEN /\ db' = RollbackTx(db, txs[tx].work)
             /\ txs' = [txs EXCEPT ![tx] = [status |-> "done", work |-> EmptyDb]]
             /\ res' = Res("Rollback", ctx, EmptyKey, OK, NoVal)
             /\ mon' = MonFinished("rolledback", mon.expect)
        ELSE /\ res' = Res("Rollback", ctx, EmptyKey, ErrTxDone, NoVal)
             /\ UNCHANGED <<db, txs, mon>>

\* r.SaveTicketState(ctx, state), state drawn from states
SaveTicketStateOf(states) ==
    \E ctx \in LiveContexts :
    \E state \in states :
        IF state = NilState
        THEN /\ res' = Res("SaveTicketState", ctx, EmptyKey, ErrInvalidInput, NilState)
             /\ UNCHANGED <<db, txs, mon>>
        ELSE IF state.TicketKey = EmptyKey
        THEN /\ res' = Res("SaveTicketState", ctx, EmptyKey, ErrEmptyKey, NoVal)
             /\ UNCHANGED <<db, txs, mon>>
        ELSE /\ CanRun(ctx)
             /\ IF TxDone(ctx)
                THEN /\ res' = Res("SaveTicketState", ctx, state.TicketKey, ErrTxDone, NoVal)
                     /\ UNCHANGED <<db, txs, mon>>
                ELSE /\ WriteTable(ctx, [TableOf(ctx) EXCEPT
                                !.tickets[state.TicketKey] = TicketRow(state)])
                     /\ res' = Res("SaveTicketState", ctx, state.TicketKey, OK, state)
                     /\ mon' = MonWrite(ctx, [mon.writes EXCEPT
                                !.tickets[state.TicketKey] = TicketRow(state)])

\* r.GetTicketState(ctx, ticketKey), ticketKey drawn from keys
GetTicketStateOf(keys) ==
    \E ctx \in LiveContexts, ticketKey \in keys \cup {EmptyKey} :
        /\ UNCHANGED <<db, txs, mon>>
        /\ IF ticketKey = EmptyKey
           THEN res' = Res("GetTicketState", ctx, ticketKey, ErrEmptyKey, NoVal)
           ELSE /\ CanRun(ctx)
                /\ IF TxDone(ctx)
                   THEN res' = Res("GetTicketState", ctx, ticketKey, ErrTxDone, NoVal)
                   ELSE IF TableOf(ctx).tickets[ticketKey] = NoRow
                   THEN res' = Res("GetTicketState", ctx, ticketKey, ErrNotFound, NoVal)
                   ELSE \E state \in ScanTicketRow(ticketKey, TableOf(ctx).tickets[ticketKey]) :
                            res' = Res("GetTicketState", ctx, ticketKey, OK, state)

\* r.DeleteTicketState(ctx, ticketKey)
DeleteTicketState ==
    \E ctx \in LiveContexts, ticketKey \in TicketKeys \cup {EmptyKey} :
        IF ticketKey = EmptyKey
        THEN /\ res' = Res("DeleteTicketState", ctx, ticketKey, ErrEmptyKey, NoVal)
             /\ UNCHANGED <<db, txs, mon>>
        ELSE /\ CanRun(ctx)
             /\ IF TxDone(ctx)
                THEN /\ res' = Res("DeleteTicketState", ctx, ticketKey, ErrTxDone, NoVal)
                     /\ UNCHANGED <<db, txs, mon>>
                ELSE IF TableOf(ctx).tickets[ticketKey] = NoRow
                THEN /\ res' = Res("DeleteTicketState", ctx, ticketKey, ErrNotFound, NoVal)
                     /\ UNCHANGED <<db, txs, mon>>
                ELSE /\ WriteTable(ctx, [TableOf(ctx) EXCEPT !.tickets[ticketKey] = NoRow])
                     /\ res' = Res("DeleteTicketState", ctx, ticketKey, OK, NoVal)
                     /\ mon' = MonWrite(ctx, [mon.writes EXCEPT !.tickets[ticketKey] = Deleted])

\* r.SaveProjectState(ctx, state), the state's key drawn from keys
SaveProjectStateOf(keys) ==
    \E ctx \in LiveContexts :
    \E state \in {NilState} \cup UNION {SampleProjectStates(k) : k \in keys \cup {EmptyKey}} :
        IF state = NilState
        THEN /\ res' = Res("SaveProjectState", ctx, EmptyKey, ErrInvalidInput, NilState)
             /\ UNCHANGED <<db, txs, mon>>
        ELSE IF state.ProjectKey = EmptyKey
        THEN /\ res' = Res("SaveProjectState", ctx, EmptyKey, ErrEmptyKey, NoVal)
             /\ UNCHANGED <<db, txs, mon>>
        ELSE /\ CanRun(ctx)
             /\ IF TxDone(ctx)
                THEN /\ res' = Res("SaveProjectState", ctx, state.ProjectKey, ErrTxDone, NoVal)
                     /\ UNCHANGED <<db, txs, mon>>
                ELSE /\ WriteTable(ctx, [TableOf(ctx) EXCEPT
                                !.projects[state.ProjectKey] = ProjectRow(state)])
                     /\ res' = Res("SaveProjectState", ctx, state.ProjectKey, OK, NoVal)
                     /\ mon' = MonWrite(ctx, [mon.writes EXCEPT
                                !.projects[state.ProjectKey] = ProjectRow(state)])

\* r.GetProjectState(ctx, projectKey), projectKey drawn from keys
GetProjectStateOf(keys) ==
    \E ctx \in LiveContexts, projectKey \in keys \cup {EmptyKey} :
        /\ UNCHANGED <<db, txs, mon>>
        /\ IF projectKey = EmptyKey
           THEN res' = Res("GetProjectState", ctx, projectKey, ErrEmptyKey, NoVal)
           ELSE /\ CanRun(ctx)
                /\ IF TxDone(ctx)
                   THEN res' = Res("GetProjectState", ctx, projectKey, ErrTxDone, NoVal)
                   ELSE IF TableOf(ctx).projects[projectKey] = NoRow
                   THEN res' = Res("GetProjectState", ctx, projectKey, ErrNotFound, NoVal)
                   ELSE \E state \in ScanProjectRow(projectKey, TableOf(ctx).projects[projectKey]) :
                            res' = Res("GetProjectState", ctx, projectKey, OK, state)

\* the pattern of DELETE ... WHERE ticket_key LIKE ? || '-%'
ProjectTicketsPattern(projectKey) == projectKey \o <<"-", "%">>

\* the ticket table after DELETE ... WHERE ticket_key LIKE ? || '-%'
DeleteProjectTickets(table, projectKey) ==
    [k \in StoredTicketKeys |->
        IF Like(k, ProjectTicketsPattern(projectKey)) THEN NoRow ELSE table[k]]

\* the observer's ticket writes after that DELETE removed rows of table
MonDeleteProjectTickets(table, projectKey) ==
    [k \in StoredTicketKeys |->
        IF Like(k, ProjectTicketsPattern(projectKey)) /\ table[k] # NoRow
        THEN Deleted ELSE mon.writes.tickets[k]]

\* r.DeleteProjectState(ctx, projectKey), projectKey drawn from keys
DeleteProjectStateOf(keys) ==
    \E ctx \in LiveContexts, projectKey \in keys \cup {EmptyKey} :
        LET t == TableOf(ctx)
            ticketsGone == [t EXCEPT !.tickets = DeleteProjectTickets(t.tickets, projectKey)]
            projectGone == [ticketsGone EXCEPT !.projects[projectKey] = NoRow]
        IN
        IF projectKey = EmptyKey
        THEN /\ res' = Res("DeleteProjectState", ctx, projectKey, ErrEmptyKey, NoVal)
             /\ UNCHANGED <<db, txs, mon>>
        ELSE /\ CanRun(ctx)
             /\ IF ~isInTransaction(ctx)
                THEN \* its own transaction: rolled back when it returns early
                     IF t.projects[projectKey] = NoRow
                     THEN /\ res' = Res("DeleteProjectState", ctx, projectKey, ErrNotFound, NoVal)
                          /\ UNCHANGED <<db, txs, mon>>
                     ELSE /\ db' = projectGone
                          /\ res' = Res("DeleteProjectState", ctx, projectKey, OK, NoVal)
                          /\ mon' = NoMon
                          /\ UNCHANGED txs
                ELSE IF TxDone(ctx)
                THEN /\ res' = Res("DeleteProjectState", ctx, projectKey, ErrTxDone, NoVal)
                     /\ UNCHANGED <<db, txs, mon>>
                ELSE IF t.projects[projectKey] = NoRow
                THEN \* the caller's transaction keeps the ticket deletes
                     /\ WriteTable(ctx, ticketsGone)
                     /\ res' = Res("DeleteProjectState", ctx, projectKey, ErrNotFound, NoVal)
                     /\ mon' = [mon EXCEPT !.writes.tickets =
                                    MonDeleteProjectTickets(t.tickets, projectKey)]
                ELSE /\ WriteTable(ctx, projectGone)
                     /\ res' = Res("DeleteProjectState", ctx, projectKey, OK, NoVal)
                     /\ mon' = [mon EXCEPT
                                    !.writes.tickets = MonDeleteProjectTickets(t.tickets, projectKey),
                                    !.writes.projects[projectKey] = Deleted]

\* SaveTicketState with nil, with an empty key and with the sample states
SaveTicketState ==
    SaveTicketStateOf({NilState} \cup UNION {SampleStates(k) : k \in TicketKeys \cup {EmptyKey}})

\* GetTicketState for the keys used with transactions
GetTicketState == GetTicketStateOf(TicketKeys)

\* GetTicketState for the keys the goroutines save
GetSavedTicketState == GetTicketStateOf(SaverKeys)

\* the project operations on the project of the tickets JMD-n
SaveProjectState == SaveProjectStateOf({KeyJMD})

GetProjectState == GetProjectStateOf({KeyJMD})

DeleteProjectState == DeleteProjectStateOf({KeyJMD})

\* the project operations on any project
SaveAnyProjectState == SaveProjectStateOf(ProjectKeys)

GetAnyProjectState == GetProjectStateOf(ProjectKeys)

DeleteAnyProjectState == DeleteProjectStateOf(ProjectKeys)

NextStore ==
    \/ BeginTransaction /\ UNCHANGED <<tsVars, poVars, ccVars, netVars, auxVars>>
    \/ Commit /\ UNCHANGED <<tsVars, poVars, ccVars, netVars, auxVars>>
    \/ Rollback /\ UNCHANGED <<tsVars, poVars, ccVars, netVars, auxVars>>
    \/ SaveTicketState /\ UNCHANGED <<tsVars, poVars, ccVars, netVars, auxVars>>
    \/ GetTicketState /\ UNCHANGED <<tsVars, poVars, ccVars, netVars, auxVars>>
    \/ DeleteTicketState /\ UNCHANGED <<tsVars, poVars, ccVars, netVars, auxVars>>
    \/ SaveProjectState /\ UNCHANGED <<tsVars, poVars, ccVars, netVars, auxVars>>
    \/ GetProjectState /\ UNCHANGED <<tsVars, poVars, ccVars, netVars, auxVars>>
    \/ DeleteProjectState /\ UNCHANGED <<tsVars, poVars, ccVars, netVars, auxVars>>

\* the last call on the ticket state: its name, the instant of its time
\* argument, its hash argument, its return value and the state it found
NoArg == 0

Last(op, at, hash, ret, before) ==
    [op |-> op, at |-> at, hash |-> hash, ret |-> ret, before |-> before]

NoScen == [stage |-> 0, t0 |-> 0]

(***************************************************************************)
(* jira.retryTransport                                                     *)
(***************************************************************************)
\* the largest retry budget of the transports built with the test's delays
MaxRetryBudget == 4

\* the retryTransport NewClient builds, delays in milliseconds
DefaultTransportConfig ==
    [maxRetries |-> 3, initialDelay |-> 1000, maxDelay |-> 10000]

\* the retryTransport TestRetryTransport builds, with a budget of n retries
TestTransportConfig(n) ==
    [maxRetries |-> n, initialDelay |-> 1, maxDelay |-> 5]

TransportConfigs ==
    {DefaultTransportConfig} \cup {TestTransportConfig(n) : n \in 0..MaxRetryBudget}

retryStatusesWithServerErrors == {429, 500}

\* retryStatuses: the statuses with retryStatuses[status] = true
retryStatuses == {429}

\* what rt.transport.RoundTrip(req) gives: a response status, or no response
\* and an error
NoResponse == 0

\* http.DefaultTransport fails a request whose context is cancelled
Outcomes(cancelled) ==
    IF cancelled THEN {NoResponse} ELSE {NoResponse, 200, 429, 500}

DoubledUncapped(delay, cfg) == delay * 2

\* delay *= 2; if delay > rt.maxDelay { delay = rt.maxDelay }
Doubled(delay, cfg) ==
    IF delay * 2 > cfg.maxDelay THEN cfg.maxDelay ELSE delay * 2

\* a transport on which RoundTrip has not been called
IdleTransport(cfg) ==
    [cfg |-> cfg, pc |-> "idle", attempt |-> 0, delay |-> 0, calls |-> 0,
     outcomes |-> << >>, waits |-> << >>, cancelled |-> FALSE, ret |-> NoResponse]

InitRoundTrip == rt = IdleTransport(DefaultTransportConfig)

\* rt.RoundTrip(req) is called: delay := rt.initialDelay, attempt := 0
RoundTripCall ==
    /\ rt.pc = "idle"
    /\ rt' = [rt EXCEPT !.pc = "request", !.attempt = 0,
                        !.delay = rt.cfg.initialDelay]
    /\ UNCHANGED <<jc, sr>>

\* one pass of the loop up to its return or its time.Sleep(delay)
Attempt ==
    /\ rt.pc = "request"
    /\ \E outcome \in Outcomes(rt.cancelled) :
          LET called == [rt EXCEPT !.calls = @ + 1,
                                   !.outcomes = Append(@, outcome)]
              returned == [called EXCEPT !.pc = "returned", !.ret = outcome]
          IN
          IF outcome # NoResponse /\ outcome \notin retryStatuses
          THEN rt' = returned
          ELSE IF rt.attempt = rt.cfg.maxRetries
          THEN rt' = returned
          ELSE IF outcome # NoResponse /\ outcome \in retryStatuses
          THEN rt' = [called EXCEPT !.pc = "sleeping"]
          ELSE rt' = returned
    /\ UNCHANGED <<jc, sr>>

\* time.Sleep(delay) is over: the delay doubles up to maxDelay and the loop
\* goes to its next pass
WakeUp ==
    /\ rt.pc = "sleeping"
    /\ rt' = [rt EXCEPT !.waits = Append(@, rt.delay),
                        !.delay = Doubled(rt.delay, rt.cfg),
                        !.attempt = @ + 1,
                        !.pc = "request"]
    /\ UNCHANGED <<jc, sr>>

\* the caller cancels the context of the request while RoundTrip runs
Cancel ==
    /\ rt.pc \in {"request", "sleeping"}
    /\ ~rt.cancelled
    /\ rt' = [rt EXCEPT !.cancelled = TRUE]
    /\ UNCHANGED <<jc, sr>>

(***************************************************************************)
(* jira: mapHTTPError and Repository.UpdateTicket                          *)
(***************************************************************************)
\* the longest message text of an error
MaxMsg == 3

\* texts are strings, written as sequences of characters; the characters of
\* message texts (of a ticket key such as "JMD-404", of a server message)
MsgChars == {"4", "0", "9", "x"}

Messages == UNION {[1..n -> MsgChars] : n \in 0..MaxMsg}

\* the response statuses of failed requests
ErrorStatuses == {400, 401, 403, 404, 409, 429, 500}

Digits(status) ==
    CASE status = 400 -> <<"4", "0", "0">>
      [] status = 401 -> <<"4", "0", "1">>
      [] status = 403 -> <<"4", "0", "3">>
      [] status = 404 -> <<"4", "0", "4">>
      [] status = 409 -> <<"4", "0", "9">>
      [] status = 429 -> <<"4", "2", "9">>
      [] status = 500 -> <<"5", "0", "0">>

\* err.Error() of the error of a failed request: the status of the response
\* followed by a message, as in "404 not found"; the message alone when there
\* was no response
ErrorText(status, msg) ==
    IF status = NoResponse THEN msg ELSE Digits(status) \o <<" ">> \o msg

\* the error of a failed request
JiraError(status, msg) == [status |-> status, text |-> ErrorText(status, msg)]

JiraErrors == {JiraError(status, msg) :
                  status \in ErrorStatuses \cup {NoResponse}, msg \in Messages}

\* errStr[i:i+len(pattern)] == pattern for some i
Contains(errStr, pattern) ==
    /\ Len(errStr) >= Len(pattern)
    /\ \E i \in 0..(Len(errStr) - Len(pattern)) :
          SubSeq(errStr, i + 1, i + Len(pattern)) = pattern

\* the texts put before the code: "", "status code ", "HTTP ", "status="
PatternPrefixes ==
    {<< >>,
     <<"s", "t", "a", "t", "u", "s", " ", "c", "o", "d", "e", " ">>,
     <<"H", "T", "T", "P", " ">>,
     <<"s", "t", "a", "t", "u", "s", "=">>}

\* containsStatusCode
containsStatusCode(errStr, code) ==
    \E prefix \in PatternPrefixes : Contains(errStr, prefix \o Digits(code))

\* domain errors, and an error that wraps the original error only
ErrUnauthorized == "ErrUnauthorized"
ErrConflict == "ErrConflict"
ErrWrapped == "wrapped original error"

\* mapHTTPError(err, context): the domain error the returned error wraps
mapHTTPError(err) ==
    IF err = NIL THEN OK
    ELSE IF containsStatusCode(err.text, 404) THEN ErrNotFound
    ELSE IF containsStatusCode(err.text, 401) THEN ErrUnauthorized
    ELSE IF containsStatusCode(err.text, 403) THEN ErrUnauthorized
    ELSE IF containsStatusCode(err.text, 400) THEN ErrInvalidInput
    ELSE IF containsStatusCode(err.text, 409) THEN ErrConflict
    ELSE ErrWrapped

\* the last call: mapHTTPError(err, ...), or UpdateTicket with the errors of
\* its Issue.Update and of the Issue.Get of its FetchTicket
JiraCall(op, err, fetch, ret) == [op |-> op, err |-> err, fetch |-> fetch, ret |-> ret]

InitJira == jc = JiraCall("none", NIL, NIL, OK)

\* the errors a call is about to meet: the error passed to mapHTTPError or
\* returned by Issue.Update, or nil and the error returned by Issue.Get
JiraInputs ==
    {JiraCall("none", err, NIL, OK) : err \in JiraErrors \cup {NIL}}
        \cup {JiraCall("none", NIL, fetch, OK) : fetch \in JiraErrors}

\* mapHTTPError(err, context) is called
DoMapHTTPError ==
    /\ jc.op = "none"
    /\ jc' = JiraCall("mapHTTPError", jc.err, NIL, mapHTTPError(jc.err))
    /\ UNCHANGED <<rt, sr>>

\* r.FetchTicket(ctx, key) where Issue.Get returns err: the error returned
FetchTicket(err) == mapHTTPError(err)

\* r.UpdateTicket(ctx, ticket): Issue.Update returns err; when it is nil,
\* FetchTicket follows and its error is returned wrapped
UpdateTicket ==
    /\ jc.op = "none"
    /\ jc' = JiraCall("UpdateTicket", jc.err, jc.fetch,
                      IF jc.err # NIL THEN mapHTTPError(jc.err)
                                      ELSE FetchTicket(jc.fetch))
    /\ UNCHANGED <<rt, sr>>

(***************************************************************************)
(* jira: Repository.searchTickets                                          *)
(***************************************************************************)
\* the most issues a search matches
MaxIssues == 101

\* const maxResults = 50
maxResults == 50

\* the issues Issue.Search returns for StartAt = startAt, MaxResults =
\* maxResults when the search matches issues 1..total
SearchPage(total, startAt) ==
    LET left == IF total > startAt THEN total - startAt ELSE 0
        size == IF left < maxResults THEN left ELSE maxResults
    IN [i \in 1..size |-> startAt + i]

\* the issues of a page that mapIssueToTicket turns into a ticket: those whose
\* key is a valid ticket key; the others are skipped
MappedTickets(issues, invalid) ==
    SelectSeq(issues, LAMBDA issue : issue \notin invalid)

LastPageByTickets(issues, tickets) == Len(tickets) < maxResults

\* if len(issues) < maxResults { break }
LastPage(issues, tickets) == Len(issues) < maxResults

\* a search that matches issues 1..total, those of invalid with a key that is
\* not a valid ticket key, before searchTickets is called
IdleSearch(total, invalid) ==
    [total |-> total, invalid |-> invalid, pc |-> "idle", startAt |-> 0,
     offsets |-> << >>, sizes |-> << >>, tickets |-> << >>, err |-> OK]

\* the issues with an invalid key: none, or one at the start or at the end of
\* the first page or at the start of the second
InvalidChoices(total) == {{}} \cup {{k} : k \in {1, maxResults, maxResults + 1} \cap 1..total}

InitSearch == sr = IdleSearch(0, {})

\* r.searchTickets(ctx, jql, operation) is called
SearchCall ==
    /\ sr.pc = "idle"
    /\ sr' = [sr EXCEPT !.pc = "searching", !.startAt = 0, !.tickets = << >>]
    /\ UNCHANGED <<rt, jc>>

\* one pass of the loop: Issue.Search fails and searchTickets returns nil and
\* the mapped error, or it gives a page whose tickets are appended
SearchStep ==
    /\ sr.pc = "searching"
    /\ \/ sr' = [sr EXCEPT !.pc = "returned",
                            !.offsets = Append(@, sr.startAt),
                            !.tickets = << >>,
                            !.err = mapHTTPError(JiraError(500, << >>))]
       \/ LET issues == SearchPage(sr.total, sr.startAt)
              tickets == MappedTickets(issues, sr.invalid)
              fetched == [sr EXCEPT !.offsets = Append(@, sr.startAt),
                                    !.sizes = Append(@, Len(issues)),
                                    !.tickets = @ \o tickets]
          IN IF LastPage(issues, tickets)
             THEN sr' = [fetched EXCEPT !.pc = "returned"]
             ELSE sr' = [fetched EXCEPT !.startAt = @ + maxResults]
    /\ UNCHANGED <<rt, jc>>

(***************************************************************************)
(* sqlite: MigrationManager.Migrate                                        *)
(***************************************************************************)
\* the most migrations a build of the program holds in its migrations list
MaxMigrations == 2

\* the most Migrate runs on one database file
MaxRuns == 3

\* a failure of the database itself (a query, BeginTx, Exec or Commit)
ErrDatabase == "database error"
\* version INTEGER PRIMARY KEY refuses a second row with the same version
ErrConstraint == "UNIQUE constraint failed: schema_version.version"

\* SELECT COALESCE(MAX(version), 0) FROM schema_version, and 0 when the
\* table does not exist
getCurrentVersion(file) ==
    IF ~file.table \/ file.rows = << >> THEN 0
    ELSE CHOOSE v \in {file.rows[i] : i \in 1..Len(file.rows)} :
            \A i \in 1..Len(file.rows) : file.rows[i] <= v

PendingAlways(version, currentVersion) == TRUE

\* if migration.Version <= currentVersion { continue }
Pending(version, currentVersion) == ~(version <= currentVersion)

\* the SQL of a migration run in one transaction: CREATE TABLE IF NOT EXISTS
\* schema_version, the schema changes, INSERT INTO schema_version (version).
\* The insert fails on a version the table holds, and the deferred Rollback
\* then undoes the whole migration
applyMigration(file, version) ==
    IF file.table /\ \E i \in 1..Len(file.rows) : file.rows[i] = version
    THEN [err |-> ErrConstraint, file |-> file]
    ELSE [err |-> OK,
          file |-> [table |-> TRUE,
                    rows |-> Append(file.rows, version),
                    applied |-> [file.applied EXCEPT ![version] = @ + 1]]]

\* a database file no migration has run on
NewFile == [table |-> FALSE, rows |-> << >>, applied |-> [v \in 1..MaxMigrations |-> 0]]

\* no Migrate call made yet by a build with `latest` migrations
IdleMigration(latest) ==
    [file |-> NewFile, latest |-> latest, pc |-> "idle", currentVersion |-> 0,
     index |-> 1, ret |-> 0, err |-> OK, runs |-> 0, opened |-> 1, pre |-> NewFile]

InitMigrate == mg = IdleMigration(1)

\* m.Migrate(ctx) is called: getCurrentVersion answers or fails
MigrateCall ==
    /\ mg.pc # "loop"
    /\ mg.runs < MaxRuns
    /\ \/ mg' = [mg EXCEPT !.pc = "returned", !.ret = 0, !.err = ErrDatabase,
                           !.runs = @ + 1, !.pre = mg.file]
       \/ mg' = [mg EXCEPT !.pc = "loop", !.index = 1, !.err = OK,
                           !.currentVersion = getCurrentVersion(mg.file),
                           !.runs = @ + 1, !.pre = mg.file]
    /\ UNCHANGED <<pf>>

\* one pass of the loop over migrations, or the return after the last
MigrateStep ==
    /\ mg.pc = "loop"
    /\ IF mg.index > mg.latest
       THEN mg' = [mg EXCEPT !.pc = "returned", !.ret = mg.currentVersion, !.err = OK]
       ELSE IF ~Pending(mg.index, mg.currentVersion)
       THEN mg' = [mg EXCEPT !.index = @ + 1]
       ELSE \/ mg' = [mg EXCEPT !.pc = "returned", !.ret = mg.currentVersion,
                                !.err = ErrDatabase]
            \/ LET done == applyMigration(mg.file, mg.index)
               IN IF done.err # OK
                  THEN mg' = [mg EXCEPT !.pc = "returned", !.ret = mg.currentVersion,
                                        !.err = done.err]
                  ELSE mg' = [mg EXCEPT !.file = done.file, !.index = @ + 1,
                                        !.currentVersion = mg.index]
    /\ UNCHANGED <<pf>>

\* the database is closed and opened again with NewDatabase
Reopen ==
    /\ mg.pc # "loop"
    /\ mg.opened <= mg.runs
    /\ mg' = [mg EXCEPT !.opened = @ + 1, !.pc = "idle"]
    /\ UNCHANGED <<pf>>

\* a later build of the program, with one more migration in its list, is
\* installed
Upgrade ==
    /\ mg.pc # "loop"
    /\ mg.latest < MaxMigrations
    /\ mg' = [mg EXCEPT !.latest = @ + 1, !.pc = "idle"]
    /\ UNCHANGED <<pf>>

(***************************************************************************)
(* domain: calls of pure functions                                         *)
(***************************************************************************)
\* no call made
NoCall == [op |-> "none"]

\* strings.TrimSpace: the string without its leading and trailing white space
WhiteSpace == {" ", "\t", "\n", "\r"}

RECURSIVE TrimLeft(_)
TrimLeft(s) ==
    IF s # << >> /\ Head(s) \in WhiteSpace THEN TrimLeft(Tail(s)) ELSE s

RECURSIVE TrimRight(_)
TrimRight(s) ==
    IF s # << >> /\ s[Len(s)] \in WhiteSpace
    THEN TrimRight(SubSeq(s, 1, Len(s) - 1)) ELSE s

TrimSpace(s) == TrimRight(TrimLeft(s))

\* the character classes [A-Z] and \d of the patterns
UpperChars == {"A", "B", "C", "D", "E", "F", "G", "H", "I", "J", "K", "L", "M",
               "N", "O", "P", "Q", "R", "S", "T", "U", "V", "W", "X", "Y", "Z"}
DigitChars == {"0", "1", "2", "3", "4", "5", "6", "7", "8", "9"}

\* s matches ^[A-Z][A-Z0-9]{least,most}-\d+$
MatchesKey(s, least, most) ==
    \E dash \in 1..Len(s) :
        /\ s[dash] = "-"
        /\ dash - 2 >= least
        /\ dash - 2 <= most
        /\ s[1] \in UpperChars
        /\ \A i \in 2..(dash - 1) : s[i] \in UpperChars \cup DigitChars
        /\ Len(s) > dash
        /\ \A i \in (dash + 1)..Len(s) : s[i] \in DigitChars

ticketKeyPatternAnyLength(s) == MatchesKey(s, 1, Len(s))

\* regexp.MustCompile(`^[A-Z][A-Z0-9]{1,9}-\d+$`)
ticketKeyPattern(s) == MatchesKey(s, 1, 9)

ErrInvalidTicketKey == "invalid ticket key"

\* domain.NewTicketKey(key): the TicketKey value and the error
NewTicketKey(key) ==
    LET trimmed == TrimSpace(key)
    IN IF trimmed = << >> THEN [value |-> << >>, err |-> ErrEmptyKey]
       ELSE IF ~ticketKeyPattern(trimmed)
       THEN [value |-> << >>, err |-> ErrInvalidTicketKey]
       ELSE [value |-> trimmed, err |-> OK]

\* strings.Split(tk.value, "-")[0]: the part before the first dash, the
\* whole value when it holds none
RECURSIVE ProjectKey(_)
ProjectKey(value) ==
    IF value = << >> \/ Head(value) = "-" THEN << >>
    ELSE <<Head(value)>> \o ProjectKey(Tail(value))

\* the longest project part of the keys tried
MaxProject == 11

\* n times the character c
Repeat(c, n) == [i \in 1..n |-> c]

\* the strings tried as keys: a project part of 0 to MaxProject characters,
\* well-formed or not, with or without dash, number and surrounding blanks
KeyInputs ==
    {pad \o first \o Repeat(rest, n) \o sep \o number \o pad :
        pad \in {<< >>, <<" ">>},
        first \in {<< >>, <<"J">>, <<"2">>, <<"j">>},
        rest \in {"M", "2", "_"},
        n \in 0..(MaxProject - 1),
        sep \in {<< >>, <<"-">>},
        number \in {<< >>, <<"7">>, <<"1", "0">>, <<"1", "-", "4">>, <<"x">>}}

\* NewTicketKey(key) is called, then ProjectKey() on its result
DoNewTicketKey ==
    /\ pf.op = "none"
    /\ LET made == NewTicketKey(pf.key)
       IN pf' = [op |-> "NewTicketKey", key |-> pf.key, err |-> made.err,
                 value |-> made.value, project |-> ProjectKey(made.value)]
    /\ UNCHANGED <<mg>>

(***************************************************************************)
(* domain: Ticket.ContentHash                                              *)
(***************************************************************************)
\* the longest text tried in a field of a ticket
MaxText == 2

\* the characters of the texts tried
TextChars == {"a", "\n"}

\* the texts of at most n characters
RECURSIVE TextsUpTo(_)
TextsUpTo(n) ==
    IF n = 0 THEN {<< >>}
    ELSE TextsUpTo(n - 1) \cup
         {Append(t, c) : t \in {u \in TextsUpTo(n - 1) : Len(u) = n - 1}, c \in TextChars}

\* the raw values of custom fields: nil, a string, an int
RawNil == [kind |-> "nil"]
RawString(s) == [kind |-> "string", s |-> s]
RawInt(n) == [kind |-> "int", n |-> n]

DigitSeq == <<"0", "1", "2", "3", "4", "5", "6", "7", "8", "9">>

\* fmt's %v of a raw value
FormatV(raw) ==
    IF raw.kind = "nil" THEN <<"<", "n", "i", "l", ">">>
    ELSE IF raw.kind = "string" THEN raw.s
    ELSE <<DigitSeq[raw.n + 1]>>

\* the byte order of the characters of custom field names
CharRank(c) == IF c = "a" THEN 1 ELSE IF c = "b" THEN 2 ELSE 3

\* string comparison a < b, byte by byte
RECURSIVE StringLess(_, _)
StringLess(a, b) ==
    IF b = << >> THEN FALSE
    ELSE IF a = << >> THEN TRUE
    ELSE IF Head(a) # Head(b) THEN CharRank(Head(a)) < CharRank(Head(b))
    ELSE StringLess(Tail(a), Tail(b))

\* sort.Strings(keys), by insertion
RECURSIVE InsertSorted(_, _)
InsertSorted(sorted, k) ==
    IF sorted = << >> THEN <<k>>
    ELSE IF StringLess(k, Head(sorted)) THEN <<k>> \o sorted
    ELSE <<Head(sorted)>> \o InsertSorted(Tail(sorted), k)

RECURSIVE SortStrings(_)
SortStrings(keys) ==
    IF keys = << >> THEN << >>
    ELSE InsertSorted(SortStrings(SubSeq(keys, 1, Len(keys) - 1)), keys[Len(keys)])

HashedKeysUnsorted(keys) == keys

\* the keys of the map in the order the hash writes them: the order the range
\* loop gave them, sorted
HashedKeys(keys) == SortStrings(keys)

\* strings.Join(labels, ",")
RECURSIVE Join(_)
Join(labels) ==
    IF labels = << >> THEN << >>
    ELSE IF Len(labels) = 1 THEN labels[1]
    ELSE labels[1] \o <<",">> \o Join(Tail(labels))

\* fmt.Fprintf(h, "name:%s\n", text)
HashLine(name, text) == name \o <<":">> \o text \o <<"\n">>

\* fmt.Fprintf(h, "custom:%s=%v\n", k, v.Raw()) for the keys in order
RECURSIVE CustomLines(_, _)
CustomLines(fields, keys) ==
    IF keys = << >> THEN << >>
    ELSE HashLine(<<"c", "u", "s", "t", "o", "m">>,
                  Head(keys) \o <<"=">> \o FormatV(fields[Head(keys)]))
         \o CustomLines(fields, Tail(keys))

\* the bytes ContentHash writes to the digest; iteration is the order in
\* which the range over t.CustomFields gives the keys
HashInput(t, iteration) ==
    HashLine(<<"s", "u", "m", "m", "a", "r", "y">>, t.Summary)
    \o HashLine(<<"d", "e", "s", "c", "r", "i", "p", "t", "i", "o", "n">>, t.Description)
    \o HashLine(<<"s", "t", "a", "t", "u", "s">>, t.Status)
    \o HashLine(<<"p", "r", "i", "o", "r", "i", "t", "y">>, t.Priority)
    \o HashLine(<<"a", "s", "s", "i", "g", "n", "e", "e">>, t.Assignee)
    \o HashLine(<<"l", "a", "b", "e", "l", "s">>, Join(t.Labels))
    \o CustomLines(t.CustomFields, HashedKeys(iteration))

\* hex.EncodeToString(h.Sum(nil)): the MD5 digest of the bytes, taken as free
\* of collisions
ContentHash(t, iteration) == [md5 |-> HashInput(t, iteration)]

\* NewTicket(key, summary, created, updated) with an empty summary
EmptyTicket ==
    [Summary |-> << >>, Description |-> << >>, Status |-> << >>,
     IssueType |-> << >>, Priority |-> << >>, Assignee |-> << >>,
     Reporter |-> << >>, Labels |-> << >>, CustomFields |-> << >>]

\* a ticket with every field set, two labels and two custom fields
FullTicket ==
    [Summary |-> <<"a">>, Description |-> <<"a">>, Status |-> <<"a">>,
     IssueType |-> <<"a">>, Priority |-> <<"a">>, Assignee |-> <<"a">>,
     Reporter |-> <<"a">>, Labels |-> <<<<"a">>, <<"b">>>>,
     CustomFields |-> (<<"a">> :> RawString(<<"4">>)) @@ (<<"b">> :> RawNil)]

TextFields == {"Summary", "Description", "Status", "IssueType", "Priority",
               "Assignee", "Reporter"}

LabelLists ==
    LET labels == {<<"a">>, <<"b">>, <<"a", ",", "b">>}
    IN {<< >>} \cup {<<l>> : l \in labels} \cup {<<l, m>> : l \in labels, m \in labels}

CustomNames == {<<"a">>, <<"b">>, <<"a", "b">>}
RawValues == {RawNil, RawString(<<"4">>), RawInt(4), RawString(<< >>)}

\* the function f without the key k
Without(f, k) == [x \in (DOMAIN f) \ {k} |-> f[x]]

\* the tickets that differ from t in exactly one field
Variations(t) ==
    {u \in {[t EXCEPT ![f] = text] : f \in TextFields, text \in TextsUpTo(MaxText)}
        \cup {[t EXCEPT !.Labels = l] : l \in LabelLists}
        \cup {[t EXCEPT !.CustomFields = (k :> v) @@ t.CustomFields] :
                 k \in CustomNames, v \in RawValues}
        \cup {[t EXCEPT !.CustomFields = Without(t.CustomFields, k)] :
                 k \in DOMAIN t.CustomFields} : u # t}

\* the orders in which a range loop can give the keys of a map
IterationOrders(fields) ==
    {order \in [1..Cardinality(DOMAIN fields) -> DOMAIN fields] :
        \A i, j \in DOMAIN order : i # j => order[i] # order[j]}

\* the pairs of tickets hashed: a ticket and itself or one of its variations,
\* each with an iteration order of its map
HashInputs ==
    UNION {UNION {{[op |-> "none", t1 |-> t1, t2 |-> t2, order1 |-> o1, order2 |-> o2] :
                      o1 \in IterationOrders(t1.CustomFields),
                      o2 \in IterationOrders(t2.CustomFields)} :
                  t2 \in {t1} \cup Variations(t1)} :
           t1 \in {EmptyTicket, FullTicket}}

\* ContentHash() is called on both tickets
DoContentHash ==
    /\ pf.op = "none"
    /\ pf' = [op |-> "ContentHash", t1 |-> pf.t1, t2 |-> pf.t2,
              order1 |-> pf.order1, order2 |-> pf.order2,
              input1 |-> HashInput(pf.t1, pf.order1),
              input2 |-> HashInput(pf.t2, pf.order2),
              hash1 |-> ContentHash(pf.t1, pf.order1),
              hash2 |-> ContentHash(pf.t2, pf.order2)]
    /\ UNCHANGED <<mg>>

(***************************************************************************)
(* domain: CustomField.ValidateValue                                       *)
(***************************************************************************)
\* the most entries of a ValidValues list tried
MaxValid == 2

ErrInvalidFieldValue == "invalid field value"

\* cf.ValidateValue(value) with cf.ValidValues = validValues: nil or the error
ValidateValue(validValues, value) ==
    IF Len(validValues) = 0 THEN OK
    ELSE IF \E i \in 1..Len(validValues) : value = validValues[i]
    THEN OK
    ELSE ErrInvalidFieldValue

\* the values tried: a word, the same in capitals, with blanks around it,
\* another word, blanks only and the empty string
FieldTexts ==
    {<<"d">>, <<"D">>, <<" ", "d">>, <<"d", " ">>, <<" ", "d", " ">>, <<"e">>,
     <<" ">>, << >>}

\* the lists of at most n values
RECURSIVE ValidLists(_)
ValidLists(n) ==
    IF n = 0 THEN {<< >>}
    ELSE ValidLists(n - 1) \cup
         {Append(l, v) : l \in {m \in ValidLists(n - 1) : Len(m) = n - 1}, v \in FieldTexts}

\* cf.ValidateValue(value) is called
DoValidateValue ==
    /\ pf.op = "none"
    /\ pf' = [op |-> "ValidateValue", validValues |-> pf.validValues,
              value |-> pf.value, err |-> ValidateValue(pf.validValues, pf.value)]
    /\ UNCHANGED <<mg>>

InitPure == pf = NoCall

InitAux == InitMigrate /\ InitPure

InitNet == InitRoundTrip /\ InitJira /\ InitSearch
\* the state right after NewTicketState("JMD", "JMD-100", jiraUpdated)
Init ==
    /\ now \in 0..MaxTime
    /\ \E jiraUpdated \in Times :
          ts = NewTicketState("JMD", "JMD-100", jiraUpdated, now)
    /\ last = Last("NewTicketState", NoArg, "", FALSE, ts)
    /\ scen = NoScen
    /\ InitStore
    /\ InitPending
    /\ InitNet
    /\ InitAux

\* any TicketState a caller can hold (all fields are exported)
InitAny ==
    /\ now \in 0..MaxTime
    /\ ts \in TicketStates
    /\ last = Last("none", NoArg, "", FALSE, ts)
    /\ scen = NoScen
    /\ InitStore
    /\ InitPending
    /\ InitNet
    /\ InitAux

\* the wall clock advances
Tick ==
    /\ now < MaxTime
    /\ now' = now + 1
    /\ last' = Last("Tick", NoArg, "", FALSE, ts)
    /\ scen' = NoScen
    /\ UNCHANGED ts

\* ts.MarkLocalModified(modifiedAt)
DoMarkLocalModified ==
    \E modifiedAt \in Times :
        /\ ts' = MarkLocalModified(ts, modifiedAt)
        /\ last' = Last("MarkLocalModified", modifiedAt.inst, "", FALSE, ts)
        /\ scen' = IF /\ ts.LocalModified = NIL
                      /\ ts.Status = SyncStatusInSync
                      /\ ts.JiraUpdated = ts.LastSynced
                      /\ modifiedAt.inst = ts.LastSynced.value.inst + 1
                   THEN [stage |-> 1, t0 |-> ts.LastSynced.value.inst]
                   ELSE NoScen
        /\ UNCHANGED now

\* ts.DetectConflict()
DoDetectConflict ==
    /\ ts' = DetectConflict(ts).ts
    /\ last' = Last("DetectConflict", NoArg, "", DetectConflict(ts).ret, ts)
    /\ scen' = IF scen.stage \in {1, 3}
               THEN [scen EXCEPT !.stage = scen.stage + 1]
               ELSE NoScen
    /\ UNCHANGED now

\* ts.UpdateSynced(contentHash, jiraUpdated)
DoUpdateSynced ==
    \E contentHash \in Hashes \ {""}, jiraUpdated \in Times :
        /\ ts' = UpdateSynced(ts, contentHash, jiraUpdated, now)
        /\ last' = Last("UpdateSynced", jiraUpdated.inst, contentHash, FALSE, ts)
        /\ scen' = IF scen.stage = 4 /\ jiraUpdated.inst = scen.t0 + 2
                   THEN [scen EXCEPT !.stage = 5]
                   ELSE NoScen
        /\ UNCHANGED now

\* ts.JiraUpdated = NewSyncTimestamp(jiraUpdated): a later fetch records the
\* remote's last-modified time
SetJiraUpdated ==
    \E jiraUpdated \in Times :
        /\ ts' = [ts EXCEPT !.JiraUpdated = NewSyncTimestamp(jiraUpdated)]
        /\ last' = Last("SetJiraUpdated", jiraUpdated.inst, "", FALSE, ts)
        /\ scen' = IF scen.stage = 2 /\ jiraUpdated.inst = scen.t0 + 2
                   THEN [scen EXCEPT !.stage = 3]
                   ELSE NoScen
        /\ UNCHANGED now

Next ==
    \/ Tick /\ UNCHANGED <<storeVars, poVars, ccVars, netVars, auxVars>>
    \/ DoMarkLocalModified /\ UNCHANGED <<storeVars, poVars, ccVars, netVars, auxVars>>
    \/ DoDetectConflict /\ UNCHANGED <<storeVars, poVars, ccVars, netVars, auxVars>>
    \/ DoUpdateSynced /\ UNCHANGED <<storeVars, poVars, ccVars, netVars, auxVars>>
    \/ SetJiraUpdated /\ UNCHANGED <<storeVars, poVars, ccVars, netVars, auxVars>>

\* a TicketState from NewTicketState on
Spec == Init /\ [][Next]_vars

\* a TicketState with arbitrary field values
SpecAny == InitAny /\ [][Next]_vars

\* a new state repository; the TicketState is left alone
InitRepository ==
    /\ now = 0
    /\ ts = NewTicketState("JMD", "JMD-100", TimeNow(0), 0)
    /\ last = Last("NewTicketState", NoArg, "", FALSE, ts)
    /\ scen = NoScen
    /\ InitStore
    /\ InitPending
    /\ InitNet
    /\ InitAux

\* the state repository under calls with and without transaction contexts
SpecStore == InitRepository /\ [][NextStore]_vars

\* the repository used without transactions, with every project key
NextProjects ==
    \/ SaveTicketState /\ UNCHANGED <<tsVars, poVars, ccVars, netVars, auxVars>>
    \/ GetTicketState /\ UNCHANGED <<tsVars, poVars, ccVars, netVars, auxVars>>
    \/ SaveAnyProjectState /\ UNCHANGED <<tsVars, poVars, ccVars, netVars, auxVars>>
    \/ GetAnyProjectState /\ UNCHANGED <<tsVars, poVars, ccVars, netVars, auxVars>>
    \/ DeleteAnyProjectState /\ UNCHANGED <<tsVars, poVars, ccVars, netVars, auxVars>>

SpecProjects == InitRepository /\ [][NextProjects]_vars

(***************************************************************************)
(* sqlite.StateRepository: the list queries                                *)
(***************************************************************************)
\* the latest instant, in milliseconds since the epoch, of the states saved
\* for the list queries
MaxStamp == 1

\* where a column text stands among the others when SQLite compares texts
\* byte by byte: "1970-01-01 00:00:00" is a prefix of
\* "1970-01-01 00:00:00.000" and comes after "1969-12-31 23:59:59.999"
TextRank(s) == IF s = SentinelText THEN -1 ELSE 2 * s.ms

\* WHERE is_dirty = 1
IsDirtyRow(row) == row.is_dirty

\* WHERE conflict_detected = 1
IsConflictRow(row) == row.conflict_detected

\* WHERE last_modified_local > ?, the parameter being formatTimestamp(since)
ModifiedSinceRow(row, since) ==
    TextRank(row.last_modified_local) > TextRank(formatTimestamp(since))

\* the WHERE clause of a list query holds for a row
Selects(op, row, since) ==
    CASE op = "GetDirtyTickets" -> IsDirtyRow(row)
      [] op = "GetConflictedTickets" -> IsConflictRow(row)
      [] op = "GetTicketsModifiedSince" -> ModifiedSinceRow(row, since)

\* the keys of the rows of a table that the WHERE clause of a query selects
SelectedKeys(table, op, since) ==
    {k \in DOMAIN table.tickets :
        table.tickets[k] # NoRow /\ Selects(op, table.tickets[k], since)}

\* every order of a set of keys
Orders(keys) ==
    {order \in [1..Cardinality(keys) -> keys] :
        \A i, j \in 1..Cardinality(keys) : i # j => order[i] # order[j]}

OrderByAsc(table, keys) ==
    {order \in Orders(keys) :
        \A i, j \in 1..Len(order) :
            i < j => TextRank(table.tickets[order[i]].last_modified_local)
                        <= TextRank(table.tickets[order[j]].last_modified_local)}

\* ORDER BY last_modified_local DESC: the orders the rows can come in, rows
\* with equal texts in any order
OrderByDesc(table, keys) ==
    {order \in Orders(keys) :
        \A i, j \in 1..Len(order) :
            i < j => TextRank(table.tickets[order[i]].last_modified_local)
                        >= TextRank(table.tickets[order[j]].last_modified_local)}

\* scanTicketStates: one state per row, in the order of the rows
scanTicketStates(table, order, r) ==
    [i \in 1..Len(order) |-> ScanRow(order[i], table.tickets[order[i]], r)]

\* what a list query returns: its states, and the time it was called with
Listed(since, states) == [since |-> since, states |-> states]

\* exec.QueryContext(ctx, query, ...) followed by scanTicketStates
ListQuery(op, since) ==
    \E ctx \in LiveContexts :
        /\ CanRun(ctx)
        /\ UNCHANGED <<db, txs, mon>>
        /\ IF TxDone(ctx)
           THEN res' = Res(op, ctx, EmptyKey, ErrTxDone, NoVal)
           ELSE \E order \in OrderByDesc(TableOf(ctx), SelectedKeys(TableOf(ctx), op, since)),
                   r \in Renderings :
                    res' = Res(op, ctx, EmptyKey, OK,
                               Listed(since, scanTicketStates(TableOf(ctx), order, r)))

\* r.GetDirtyTickets(ctx)
GetDirtyTickets == ListQuery("GetDirtyTickets", ZeroT)

\* r.GetConflictedTickets(ctx)
GetConflictedTickets == ListQuery("GetConflictedTickets", ZeroT)

\* the times GetTicketsModifiedSince is called with: the zero time, an
\* instant before the epoch, and instants around those of the saved states
SinceTimes ==
    {ZeroT, At(-1, 0, "Local")}
        \cup {At(ms, 1 - (ms % 2), "UTC") : ms \in 0..MaxStamp}

\* r.GetTicketsModifiedSince(ctx, since)
GetTicketsModifiedSince ==
    \E since \in SinceTimes : ListQuery("GetTicketsModifiedSince", since)

\* the keys of the states saved for the list queries
KeyJMD2 == KeyOfSaver(2)

ListedKeys == TicketKeys \cup {KeyJMD2}

\* the states saved for the list queries: never modified locally, or
\* modified at an instant up to MaxStamp; dirty, in conflict, or neither
ListedStates ==
    {TicketSyncState(key, At(1, 0, "UTC"), lml, At(1, 0, "UTC"),
                     flags = "dirty", flags = "conflict") :
        key \in ListedKeys,
        lml \in {ZeroT} \cup {At(ms, ms % 2, "Local") : ms \in 0..MaxStamp},
        flags \in {"dirty", "conflict", "neither"}}

SaveListedTicketState == SaveTicketStateOf(ListedStates)

NextQueries ==
    \/ SaveListedTicketState /\ UNCHANGED <<tsVars, poVars, ccVars, netVars, auxVars>>
    \/ DeleteTicketState /\ UNCHANGED <<tsVars, poVars, ccVars, netVars, auxVars>>
    \/ GetDirtyTickets /\ UNCHANGED <<tsVars, poVars, ccVars, netVars, auxVars>>
    \/ GetConflictedTickets /\ UNCHANGED <<tsVars, poVars, ccVars, netVars, auxVars>>
    \/ GetTicketsModifiedSince /\ UNCHANGED <<tsVars, poVars, ccVars, netVars, auxVars>>

\* ticket states saved and deleted, and the three list queries
SpecQueries == InitRepository /\ [][NextQueries]_vars

(***************************************************************************)
(* sqlite.StateRepository: concurrent SaveTicketState calls                *)
(***************************************************************************)
\* the states goroutine idx passes for key: all three times set, or never
\* modified locally
SaverStates(key, idx) ==
    {TicketSyncState(key, At(idx, 0, "UTC"), At(idx, 0, "UTC"), At(idx, 0, "UTC"),
                     idx % 2 = 0, FALSE),
     TicketSyncState(key, At(idx, 0, "UTC"), ZeroT, At(idx, 0, "UTC"), FALSE, FALSE)}

\* goroutine idx calls repo.SaveTicketState(ctx, state) with a context
\* without transaction: the state is not nil and its key not empty, so the
\* call goes on to exec.ExecContext on the database
SaverCall(idx, key) ==
    /\ savers[idx].pc = "idle"
    /\ \E state \in SaverStates(key, idx) :
          savers' = [savers EXCEPT ![idx] = [pc |-> "called", state |-> state]]
    /\ UNCHANGED <<db, txs, res, mon, conn>>

\* db.ExecContext takes the connection from the pool once it is free
SaverAcquire ==
    \E idx \in 1..MaxSavers :
        /\ savers[idx].pc = "called"
        /\ ConnFree
        /\ conn' = idx
        /\ savers' = [savers EXCEPT ![idx].pc = "exec"]
        /\ UNCHANGED <<db, txs, res, mon>>

\* the INSERT ... ON CONFLICT DO UPDATE statement runs and commits, the
\* connection goes back to the pool and SaveTicketState returns nil
SaverExec ==
    \E idx \in 1..MaxSavers :
        /\ savers[idx].pc = "exec"
        /\ conn = idx
        /\ db' = [db EXCEPT !.tickets[savers[idx].state.TicketKey] =
                                TicketRow(savers[idx].state)]
        /\ conn' = 0
        /\ savers' = [savers EXCEPT ![idx].pc = "returned"]
        /\ UNCHANGED <<txs, res, mon>>

\* every goroutine saves the same key
CallSameKey == \E idx \in 1..MaxSavers : SaverCall(idx, KeyJMD1)

\* every goroutine saves its own key
CallOwnKey == \E idx \in 1..MaxSavers : SaverCall(idx, KeyOfSaver(idx))

NextSameKey ==
    \/ CallSameKey /\ UNCHANGED <<tsVars, poVars, netVars, auxVars>>
    \/ SaverAcquire /\ UNCHANGED <<tsVars, poVars, netVars, auxVars>>
    \/ SaverExec /\ UNCHANGED <<tsVars, poVars, netVars, auxVars>>
    \/ GetSavedTicketState /\ UNCHANGED <<tsVars, poVars, ccVars, netVars, auxVars>>

\* concurrent SaveTicketState calls on one key, and reads
SpecSameKey == InitRepository /\ [][NextSameKey]_vars

NextOwnKeys ==
    \/ CallOwnKey /\ UNCHANGED <<tsVars, poVars, netVars, auxVars>>
    \/ SaverAcquire /\ UNCHANGED <<tsVars, poVars, netVars, auxVars>>
    \/ SaverExec /\ UNCHANGED <<tsVars, poVars, netVars, auxVars>>
    \/ GetSavedTicketState /\ UNCHANGED <<tsVars, poVars, ccVars, netVars, auxVars>>

\* concurrent SaveTicketState calls on distinct keys, and reads
SpecOwnKeys == InitRepository /\ [][NextOwnKeys]_vars

(***************************************************************************)
(* sqlite.StateRepository: calls on the database while a transaction is    *)
(* open                                                                    *)
(***************************************************************************)
\* a goroutine of the program is not inside a SaveTicketState call: a call is
\* synchronous, so only such a goroutine makes the next call on the repository
CallerFree == \E idx \in 1..MaxSavers : savers[idx].pc \in {"idle", "returned"}

\* a Commit or Rollback that finishes the open transaction and gives its
\* connection back to the pool
EndTransaction ==
    /\ CallerFree
    /\ Commit \/ Rollback
    /\ txs' # txs
    /\ UNCHANGED <<tsVars, poVars, ccVars, netVars, auxVars>>

NextOpenTx ==
    \/ CallerFree /\ BeginTransaction /\ UNCHANGED <<tsVars, poVars, ccVars, netVars, auxVars>>
    \/ CallerFree /\ Commit /\ UNCHANGED <<tsVars, poVars, ccVars, netVars, auxVars>>
    \/ CallerFree /\ Rollback /\ UNCHANGED <<tsVars, poVars, ccVars, netVars, auxVars>>
    \/ CallOwnKey /\ UNCHANGED <<tsVars, poVars, netVars, auxVars>>
    \/ SaverAcquire /\ UNCHANGED <<tsVars, poVars, netVars, auxVars>>
    \/ SaverExec /\ UNCHANGED <<tsVars, poVars, netVars, auxVars>>

\* the pool hands a free connection to a waiting call, a running statement
\* finishes, and a goroutine that can finish the open transaction does
FairOpenTx ==
    /\ WF_vars(SaverAcquire /\ UNCHANGED <<tsVars, poVars, netVars, auxVars>>)
    /\ WF_vars(SaverExec /\ UNCHANGED <<tsVars, poVars, netVars, auxVars>>)
    /\ WF_vars(EndTransaction)

\* transactions and SaveTicketState calls without transaction context, made by
\* MaxSavers goroutines on one repository
SpecOpenTx == InitRepository /\ [][NextOpenTx]_vars /\ FairOpenTx

(***************************************************************************)
(* domain.PendingOperation: calls                                          *)
(***************************************************************************)
\* po, err := NewPendingOperation("JMD", key, operation, "{}"), po kept as id
DoNewPendingOperation ==
    \E id \in 1..MaxOps, operation \in OperationTypes :
        /\ ops[id] = NoOp
        /\ pmon[id].recorded = 0 /\ pmon[id].execs = 0
        /\ ops' = IF NewPendingOperation(operation).err = OK
                  THEN [ops EXCEPT ![id] = NewPendingOperation(operation).po]
                  ELSE ops
        /\ pcall' = PCall("NewPendingOperation", id,
                          NewPendingOperation(operation).err, FALSE)
        /\ UNCHANGED pmon

\* ops[id].RecordAttempt(err)
DoRecordAttempt ==
    \E id \in 1..MaxOps, err \in AttemptErrors :
        /\ ops[id] # NoOp
        /\ pmon[id].recorded < MaxRecorded
        /\ ops' = [ops EXCEPT ![id] = RecordAttempt(ops[id], err)]
        /\ pmon' = [pmon EXCEPT ![id].recorded = @ + 1]
        /\ pcall' = PCall("RecordAttempt", id, err, FALSE)

\* ops[id].ShouldRetry()
DoShouldRetry ==
    \E id \in 1..MaxOps :
        /\ ops[id] # NoOp
        /\ pcall' = PCall("ShouldRetry", id, OK, ShouldRetry(ops[id]))
        /\ UNCHANGED <<ops, pmon>>

NextPending ==
    \/ DoNewPendingOperation /\ UNCHANGED <<tsVars, storeVars, ccVars, netVars, auxVars>>
    \/ DoRecordAttempt /\ UNCHANGED <<tsVars, storeVars, ccVars, netVars, auxVars>>
    \/ DoShouldRetry /\ UNCHANGED <<tsVars, storeVars, ccVars, netVars, auxVars>>

\* pending operations under any calls
SpecPending == InitRepository /\ [][NextPending]_vars

(***************************************************************************)
(* The retry loop that owns the pending operations                         *)
(***************************************************************************)
\* an operation that did not complete inline is queued
Enqueue ==
    \E id \in 1..MaxOps, operation \in {OpPushStatus, OpPullTicket} :
        /\ ops[id] = NoOp
        /\ pmon[id].execs = 0
        /\ ops' = [ops EXCEPT ![id] = NewPendingOperation(operation).po]
        /\ pcall' = PCall("Enqueue", id, OK, FALSE)
        /\ UNCHANGED pmon

\* an eligible operation is executed and fails: recordAttempt(err)
ExecuteFailed ==
    \E id \in 1..MaxOps, err \in AttemptErrors :
        /\ ops[id] # NoOp
        /\ ShouldRetry(ops[id])
        /\ ops' = [ops EXCEPT ![id] = RecordAttempt(ops[id], err)]
        /\ pmon' = [pmon EXCEPT ![id].recorded = @ + 1, ![id].execs = @ + 1]
        /\ pcall' = PCall("ExecuteFailed", id, err, TRUE)

\* an eligible operation is executed and succeeds: it is deleted
ExecuteSucceeded ==
    \E id \in 1..MaxOps :
        /\ ops[id] # NoOp
        /\ ShouldRetry(ops[id])
        /\ ops' = [ops EXCEPT ![id] = NoOp]
        /\ pmon' = [pmon EXCEPT ![id].execs = @ + 1]
        /\ pcall' = PCall("ExecuteSucceeded", id, OK, TRUE)

NextRetry ==
    \/ Enqueue /\ UNCHANGED <<tsVars, storeVars, ccVars, netVars, auxVars>>
    \/ ExecuteFailed /\ UNCHANGED <<tsVars, storeVars, ccVars, netVars, auxVars>>
    \/ ExecuteSucceeded /\ UNCHANGED <<tsVars, storeVars, ccVars, netVars, auxVars>>

\* pending operations under the retry loop
SpecRetry == InitRepository /\ [][NextRetry]_vars

(***************************************************************************)
(* jira: specifications                                                    *)
(***************************************************************************)
\* the repository and the pending operations as constructed, no call made
InitRest ==
    /\ now = 0
    /\ ts = NewTicketState("JMD", "JMD-100", TimeNow(0), 0)
    /\ last = Last("NewTicketState", NoArg, "", FALSE, ts)
    /\ scen = NoScen
    /\ InitStore
    /\ InitPending
    /\ InitAux

restVars == <<tsVars, storeVars, poVars, ccVars, auxVars>>

InitTransport ==
    /\ InitRest
    /\ rt \in {IdleTransport(cfg) : cfg \in TransportConfigs}
    /\ InitJira
    /\ InitSearch

NextTransport ==
    \/ RoundTripCall /\ UNCHANGED restVars
    \/ Attempt /\ UNCHANGED restVars
    \/ WakeUp /\ UNCHANGED restVars
    \/ Cancel /\ UNCHANGED restVars

\* a RoundTrip call that has started goes on: the transport answers or
\* fails, and time.Sleep returns
FairTransport ==
    /\ WF_vars(Attempt /\ UNCHANGED restVars)
    /\ WF_vars(WakeUp /\ UNCHANGED restVars)

\* one RoundTrip call on a retryTransport
SpecTransport == InitTransport /\ [][NextTransport]_vars /\ FairTransport

NextJira ==
    \/ DoMapHTTPError /\ UNCHANGED restVars
    \/ UpdateTicket /\ UNCHANGED restVars

InitJiraCalls ==
    /\ InitRest
    /\ InitRoundTrip
    /\ jc \in JiraInputs
    /\ InitSearch

\* calls of mapHTTPError and of Repository.UpdateTicket
SpecJira == InitJiraCalls /\ [][NextJira]_vars

InitSearches ==
    /\ InitRest
    /\ InitRoundTrip
    /\ InitJira
    /\ sr \in {IdleSearch(total, invalid) :
                  total \in 0..MaxIssues, invalid \in InvalidChoices(MaxIssues)}
    /\ sr.invalid \in InvalidChoices(sr.total)

NextSearch ==
    \/ SearchCall /\ UNCHANGED restVars
    \/ SearchStep /\ UNCHANGED restVars

\* one searchTickets call; every Issue.Search call returns
SpecSearch == InitSearches /\ [][NextSearch]_vars /\ WF_vars(SearchStep /\ UNCHANGED restVars)

restVarsMigrate == <<tsVars, storeVars, poVars, ccVars, netVars>>

NextMigrate ==
    \/ MigrateCall /\ UNCHANGED restVarsMigrate
    \/ MigrateStep /\ UNCHANGED restVarsMigrate
    \/ Reopen /\ UNCHANGED restVarsMigrate
    \/ Upgrade /\ UNCHANGED restVarsMigrate

\* Migrate runs one after the other on one database file
SpecMigrate == InitRepository /\ [][NextMigrate]_vars

\* everything but the call of the domain function as constructed
InitOthers ==
    /\ now = 0
    /\ ts = NewTicketState("JMD", "JMD-100", TimeNow(0), 0)
    /\ last = Last("NewTicketState", NoArg, "", FALSE, ts)
    /\ scen = NoScen
    /\ InitStore
    /\ InitPending
    /\ InitNet
    /\ InitMigrate

restVarsPure == <<tsVars, storeVars, poVars, ccVars, netVars>>

InitKeys == InitOthers /\ pf \in {[op |-> "none", key |-> key] : key \in KeyInputs}

NextKeys == DoNewTicketKey /\ UNCHANGED restVarsPure

\* NewTicketKey and ProjectKey on every string of KeyInputs
SpecKeys == InitKeys /\ [][NextKeys]_vars

InitHashes == InitOthers /\ pf \in HashInputs

NextHashes == DoContentHash /\ UNCHANGED restVarsPure

\* ContentHash on pairs of tickets that are equal or differ in one field
SpecHashes == InitHashes /\ [][NextHashes]_vars

InitFields ==
    /\ InitOthers
    /\ pf \in {[op |-> "none", validValues |-> l, value |-> v] :
                  l \in ValidLists(MaxValid), v \in FieldTexts}

NextFields == DoValidateValue /\ UNCHANGED restVarsPure

\* ValidateValue on every value and every list of valid values tried
SpecFields == InitFields /\ [][NextFields]_vars

(***************************************************************************)
(* Properties of TicketState                                               *)
(***************************************************************************)
Inst(st) == st.value.inst

BothAfter(t) ==
    /\ t.LocalModified # NIL
    /\ Inst(t.LocalModified) > Inst(t.LastSynced)
    /\ Inst(t.JiraUpdated) > Inst(t.LastSynced)

\* C1: with LocalModified set, DetectConflict() returns true iff LocalModified
\* and JiraUpdated are both strictly after LastSynced; a timestamp equal to
\* LastSynced gives false.
C1_DetectConflictIffBothStrictlyAfter ==
    (last.op = "DetectConflict" /\ last.before.LocalModified # NIL)
        => (last.ret <=> BothAfter(last.before))

C1_Witness ==
    /\ last.op = "DetectConflict"
    /\ last.before.LocalModified # NIL
    /\ Inst(last.before.LocalModified) = Inst(last.before.LastSynced)
    /\ Inst(last.before.JiraUpdated) > Inst(last.before.LastSynced)
    /\ ~last.ret

\* C2: DetectConflict() returns false whenever LocalModified is nil, whatever
\* JiraUpdated and LastSynced are.
C2_NoLocalModificationNoConflict ==
    (last.op = "DetectConflict" /\ last.before.LocalModified = NIL) => ~last.ret

C2_Witness ==
    /\ last.op = "DetectConflict"
    /\ last.before.LocalModified = NIL
    /\ Inst(last.before.JiraUpdated) > Inst(last.before.LastSynced)
    /\ ~last.ret

\* C3: whenever DetectConflict() returns true, Status is conflict right after
\* the call, whatever it was before.
C3_ConflictSetsStatus ==
    (last.op = "DetectConflict" /\ last.ret) => ts.Status = SyncStatusConflict

C3_Witness ==
    /\ last.op = "DetectConflict"
    /\ last.ret
    /\ last.before.Status = SyncStatusError
    /\ ts.Status = SyncStatusConflict

\* C4: UpdateSynced(hash, jiraUpdatedAt) from any prior status leaves
\* LocalModified nil, Status in_sync, ContentHash = hash, JiraUpdated =
\* jiraUpdatedAt and LastSynced = the current time.
C4_UpdateSyncedResets ==
    last.op = "UpdateSynced" =>
        /\ ts.LocalModified = NIL
        /\ ts.Status = SyncStatusInSync
        /\ ts.ContentHash = last.hash
        /\ Inst(ts.JiraUpdated) = last.at
        /\ Inst(ts.LastSynced) = now

C4_Witness ==
    /\ last.op = "UpdateSynced"
    /\ last.before.Status = SyncStatusConflict
    /\ last.before.LocalModified # NIL
    /\ last.before.ContentHash # last.hash
    /\ ts.Status = SyncStatusInSync

C7_OnlyUpdateSyncedClearsDirtiness ==
    [][(/\ ts.LocalModified # NIL
        /\ (ts'.LocalModified = NIL \/ ts'.Status = SyncStatusInSync))
          => last'.op = "UpdateSynced"]_vars

C7_Witness ==
    /\ last.op = "UpdateSynced"
    /\ last.before.LocalModified # NIL
    /\ last.before.Status = SyncStatusLocalModified
    /\ ts.LocalModified = NIL
    /\ ts.Status = SyncStatusInSync

\* C8: from LastSynced = JiraUpdated = t0, MarkLocalModified(t0+1) gives
\* local_modified and DetectConflict() = false; after JiraUpdated = t0+2,
\* DetectConflict() = true and Status = conflict; UpdateSynced(newHash, t0+2)
\* then gives in_sync with LocalModified nil.
C8_Lifecycle ==
    /\ scen.stage = 1 => ts.Status = SyncStatusLocalModified
    /\ scen.stage = 2 => (~last.ret /\ ts.Status = SyncStatusLocalModified)
    /\ scen.stage = 4 => (last.ret /\ ts.Status = SyncStatusConflict)
    /\ scen.stage = 5 => (ts.Status = SyncStatusInSync /\ ts.LocalModified = NIL)

C8_Witness ==
    /\ scen.stage = 5
    /\ last.op = "UpdateSynced"
    /\ last.before.Status = SyncStatusConflict
    /\ Inst(ts.JiraUpdated) = scen.t0 + 2

(***************************************************************************)
(* Properties of the transaction bracket                                   *)
(***************************************************************************)
SavedInTx(k) == mon.writes.tickets[k] \notin {NotWritten, Deleted}

\* C9: after Rollback the committed tables are the ones BeginTransaction
\* found, and GetTicketState with a context without transaction returns
\* NotFound for a key absent before BeginTransaction and the earlier state
\* otherwise.
C9_RollbackLeavesNoTrace ==
    /\ mon.phase = "rolledback" => db = mon.expect
    /\ (/\ mon.phase = "rolledback"
        /\ res.op = "GetTicketState"
        /\ res.ctx = BackgroundCtx
        /\ res.key # EmptyKey)
          => IF mon.expect.tickets[res.key] = NoRow
             THEN res.err = ErrNotFound
             ELSE /\ res.err = OK
                  /\ res.val \in ScanTicketRow(res.key, mon.expect.tickets[res.key])

C9_Witness ==
    /\ mon.phase = "rolledback"
    /\ res.op = "GetTicketState"
    /\ res.ctx = BackgroundCtx
    /\ res.key # EmptyKey
    /\ SavedInTx(res.key)
    /\ mon.expect.tickets[res.key] = NoRow
    /\ res.err = ErrNotFound

\* C10: while a transaction is open the committed tables, which are what
\* every read without the transaction context returns, are still the ones
\* BeginTransaction found; once Commit has returned they hold every write of
\* the transaction, and GetTicketState returns the state saved last.
C10_TransactionAtomic ==
    /\ mon.phase = "intx" => db = mon.expect
    /\ mon.phase = "committed" => db = mon.expect
    /\ (/\ mon.phase = "committed"
        /\ res.op = "GetTicketState"
        /\ res.ctx = BackgroundCtx
        /\ res.key # EmptyKey
        /\ SavedInTx(res.key))
          => /\ res.err = OK
             /\ db.tickets[res.key] # NoRow
             /\ res.val \in ScanTicketRow(res.key, mon.expect.tickets[res.key])

C10_Witness ==
    /\ mon.phase = "committed"
    /\ \A k \in TicketKeys : SavedInTx(k)
    /\ res.op = "GetTicketState"
    /\ res.ctx = BackgroundCtx
    /\ res.key # EmptyKey
    /\ res.err = OK

\* C11: BeginTransaction with a context that carries a transaction returns
\* InvalidInput and no context, and leaves the tables, the transaction and
\* its pending writes as they were; a Commit or Rollback of that transaction
\* right after still succeeds and applies or discards its writes.
C11_NestedBeginRejected ==
    [][/\ (res'.op = "BeginTransaction" /\ res'.ctx # BackgroundCtx)
            => /\ res'.err = ErrInvalidInput
               /\ res'.val = NoVal
               /\ UNCHANGED <<db, txs, mon>>
       /\ (/\ res.op = "BeginTransaction"
           /\ res.ctx # BackgroundCtx
           /\ txs[res.ctx].status = "active"
           /\ res'.op \in {"Commit", "Rollback"}
           /\ res'.ctx = res.ctx)
            => /\ res'.err = OK
               /\ db' = IF res'.op = "Commit" THEN txs[res.ctx].work ELSE db]_vars

C11_Witness ==
    /\ res.op = "BeginTransaction"
    /\ res.ctx # BackgroundCtx
    /\ res.err = ErrInvalidInput
    /\ txs[res.ctx].status = "active"
    /\ txs[res.ctx].work # db

\* C12: Commit or Rollback with a context that carries no transaction, or
\* one whose transaction is already committed or rolled back, returns
\* InvalidInput and changes neither the tables nor any transaction.
C12_CommitRollbackWithoutActiveTx ==
    [][(/\ res'.op \in {"Commit", "Rollback"}
        /\ \/ res'.ctx = BackgroundCtx
           \/ txs[res'.ctx].status # "active")
            => /\ res'.err = ErrInvalidInput
               /\ UNCHANGED <<db, txs>>]_vars

(***************************************************************************)
(* Properties of stored timestamps                                         *)
(***************************************************************************)
\* time.Time.Equal: the same instant, whatever the location
SameInstant(a, b) ==
    /\ IsZero(a) = IsZero(b)
    /\ ~IsZero(a) => (a.ms = b.ms /\ a.frac = b.frac)

\* a time without a part below the millisecond
MsPrecise(t) == IsZero(t) \/ t.frac = 0

SameTicketSyncState(a, b) ==
    /\ a.TicketKey = b.TicketKey
    /\ SameInstant(a.LastSynced, b.LastSynced)
    /\ SameInstant(a.LastModifiedLocal, b.LastModifiedLocal)
    /\ SameInstant(a.LastModifiedJira, b.LastModifiedJira)
    /\ a.IsDirty = b.IsDirty
    /\ a.ConflictDetected = b.ConflictDetected

\* C13: GetTicketState(s.TicketKey) right after a successful
\* SaveTicketState(s), with the same context and s's timestamps precise to
\* the millisecond, returns a state equal to s in all six fields, whatever
\* the key held before.
C13_SaveGetRoundTrip ==
    [][(/\ res.op = "SaveTicketState"
        /\ res.err = OK
        /\ MsPrecise(res.val.LastSynced)
        /\ MsPrecise(res.val.LastModifiedLocal)
        /\ MsPrecise(res.val.LastModifiedJira)
        /\ res'.op = "GetTicketState"
        /\ res'.key = res.key
        /\ res'.ctx = res.ctx)
            => /\ res'.err = OK
               /\ SameTicketSyncState(res'.val, res.val)]_vars

\* a saved time and the time read back agree on being the zero time
ZeroKept(saved, read) ==
    /\ IsZero(saved) => IsZero(read)
    /\ (~IsZero(saved) /\ MsPrecise(saved)) => ~IsZero(read)

\* C14: a state GetTicketState or GetProjectState returns has the zero time
\* in every timestamp field where the state saved for the key had it, and a
\* non-zero time wherever the saved state had a non-zero time precise to the
\* millisecond.
C14_ZeroTimestampReadAsZero ==
    /\ (res.op = "GetTicketState" /\ res.err = OK) =>
          \A s \in SampleStates(res.key) :
              TicketRow(s) = TableOf(res.ctx).tickets[res.key] =>
                  /\ ZeroKept(s.LastSynced, res.val.LastSynced)
                  /\ ZeroKept(s.LastModifiedLocal, res.val.LastModifiedLocal)
                  /\ ZeroKept(s.LastModifiedJira, res.val.LastModifiedJira)
    /\ (res.op = "GetProjectState" /\ res.err = OK) =>
          \A s \in SampleProjectStates(res.key) :
              ProjectRow(s) = TableOf(res.ctx).projects[res.key] =>
                  /\ ZeroKept(s.LastFullSync, res.val.LastFullSync)
                  /\ ZeroKept(s.LastIncrementalSync, res.val.LastIncrementalSync)

(***************************************************************************)
(* Properties of DeleteProjectState                                        *)
(***************************************************************************)
\* strings.HasPrefix(s, prefix)
HasPrefix(s, prefix) ==
    /\ Len(s) >= Len(prefix)
    /\ SubSeq(s, 1, Len(prefix)) = prefix

\* C15: a successful DeleteProjectState(P) leaves no project state of P and
\* no ticket state whose key starts with P + "-", and leaves every other
\* project state and every other ticket state as it was.
C15_DeleteProjectStateCascade ==
    [][(res'.op = "DeleteProjectState" /\ res'.err = OK) =>
          /\ db'.projects[res'.key] = NoRow
          /\ \A p \in ProjectKeys \ {res'.key} : db'.projects[p] = db.projects[p]
          /\ \A k \in StoredTicketKeys :
                db'.tickets[k] = IF HasPrefix(k, res'.key \o <<"-">>)
                                 THEN NoRow
                                 ELSE db.tickets[k]]_vars

(***************************************************************************)
(* Properties of pending operations                                        *)
(***************************************************************************)
\* C16: ShouldRetry() on an operation created with Attempts = 0 returns true
\* after 0, 1 and 2 RecordAttempt calls and false after the 3rd (and any
\* later one); it returns true exactly when Attempts < 3.
C16_ShouldRetryUnderThree ==
    pcall.op = "ShouldRetry" =>
        /\ pcall.ret = (pmon[pcall.id].recorded < 3)
        /\ pcall.ret = (ops[pcall.id].Attempts < 3)

C16_Witness ==
    /\ pcall.op = "ShouldRetry"
    /\ pcall.ret = FALSE
    /\ pmon[pcall.id].recorded = 3
    /\ ops[pcall.id].LastError = ""

\* C17: the retry loop executes no operation more than 3 times; an
\* operation that is still queued after 3 executions is not executed again,
\* stays queued and ShouldRetry() stays false for it.
C17_RetryBudget ==
    [][\A id \in 1..MaxOps :
          /\ pmon'[id].execs <= 3
          /\ (ops[id] # NoOp /\ pmon[id].execs = 3)
                => /\ ops'[id] # NoOp
                   /\ ~ShouldRetry(ops'[id])
                   /\ pmon'[id].execs = pmon[id].execs]_vars

C17_Witness ==
    \E id \in 1..MaxOps :
        /\ ops[id] # NoOp
        /\ pmon[id].execs = 3
        /\ ops[id].Attempts = 3
        /\ \E other \in 1..MaxOps : pcall.id = other /\ other # id

\* C18: Attempts of a PendingOperation never exceeds 3, whatever
\* RecordAttempt calls are made on it.
C18_AttemptsAtMostMaxRetries ==
    \A id \in 1..MaxOps : ops[id] # NoOp => ops[id].Attempts <= 3

(***************************************************************************)
(* Properties of concurrent SaveTicketState calls                          *)
(***************************************************************************)
AllReturned == \A idx \in 1..MaxSavers : savers[idx].pc = "returned"

\* C19: once the concurrent SaveTicketState calls on one key have all
\* returned, GetTicketState for the key succeeds and returns a state equal
\* in every field to the argument of one of the calls.
C19_LastWriteWins ==
    [][(/\ AllReturned
        /\ res'.op = "GetTicketState"
        /\ res'.key = KeyJMD1)
            => /\ res'.err = OK
               /\ \E idx \in 1..MaxSavers :
                     SameTicketSyncState(res'.val, savers[idx].state)]_vars

\* C20: once the concurrent SaveTicketState calls on distinct keys have all
\* returned, GetTicketState for each of the keys succeeds and returns a
\* state equal in every field to the one saved for that key.
C20_DistinctKeysIndependent ==
    [][(/\ AllReturned
        /\ res'.op = "GetTicketState"
        /\ res'.key \in SaverKeys)
            => /\ res'.err = OK
               /\ \A idx \in 1..MaxSavers :
                     KeyOfSaver(idx) = res'.key
                        => SameTicketSyncState(res'.val, savers[idx].state)]_vars

(***************************************************************************)
(* C21: every call on the state store returns: a SaveTicketState call made *)
(* with a context without transaction, also one made while a transaction   *)
(* of BeginTransaction is open on the single connection, eventually        *)
(* returns.                                                                *)
(***************************************************************************)
C21_EveryCallReturns ==
    \A idx \in 1..MaxSavers :
        (savers[idx].pc = "called") ~> (savers[idx].pc = "returned")

\* time.Time.After on the times of the store: the zero time is before any
\* other
TimeAfter(a, b) ==
    /\ ~IsZero(a)
    /\ \/ IsZero(b)
       \/ a.ms > b.ms
       \/ a.ms = b.ms /\ a.frac > b.frac

\* the keys of the states of a returned list
ListedKeysOf(val) == {val.states[i].TicketKey : i \in 1..Len(val.states)}

\* no state of a returned list was modified locally after one before it
DescendingByLastModifiedLocal(val) ==
    \A i, j \in 1..Len(val.states) :
        i < j => ~TimeAfter(val.states[j].LastModifiedLocal,
                            val.states[i].LastModifiedLocal)

\* a returned list holds one state for each key of keys and no other
ListsExactly(val, keys) ==
    /\ ListedKeysOf(val) = keys
    /\ Len(val.states) = Cardinality(keys)

(***************************************************************************)
(* C22: GetDirtyTickets returns one state for every stored ticket state    *)
(* with IsDirty = true and no other, GetConflictedTickets one for every    *)
(* stored state with ConflictDetected = true and no other (the empty list  *)
(* when there is none), each list ordered by LastModifiedLocal descending. *)
(***************************************************************************)
C22_DirtyAndConflictedLists ==
    /\ res.op = "GetDirtyTickets" =>
          /\ res.err = OK
          /\ ListsExactly(res.val, {k \in StoredTicketKeys :
                db.tickets[k] # NoRow /\ db.tickets[k].is_dirty})
          /\ \A i \in 1..Len(res.val.states) : res.val.states[i].IsDirty
          /\ DescendingByLastModifiedLocal(res.val)
    /\ res.op = "GetConflictedTickets" =>
          /\ res.err = OK
          /\ ListsExactly(res.val, {k \in StoredTicketKeys :
                db.tickets[k] # NoRow /\ db.tickets[k].conflict_detected})
          /\ \A i \in 1..Len(res.val.states) : res.val.states[i].ConflictDetected
          /\ DescendingByLastModifiedLocal(res.val)

\* GetDirtyTickets returned two states modified at different times while a
\* third stored state is not dirty
C22_Witness ==
    /\ res.op = "GetDirtyTickets"
    /\ Len(res.val.states) = 2
    /\ TimeAfter(res.val.states[1].LastModifiedLocal,
                 res.val.states[2].LastModifiedLocal)
    /\ \E k \in StoredTicketKeys :
          db.tickets[k] # NoRow /\ ~db.tickets[k].is_dirty

(***************************************************************************)
(* C23: GetTicketsModifiedSince(t) returns one state for every stored      *)
(* ticket state whose LastModifiedLocal is strictly after t and no other   *)
(* (a state modified exactly at t is left out, and so is every state whose *)
(* LastModifiedLocal is the zero time), ordered by LastModifiedLocal       *)
(* descending.                                                             *)
(***************************************************************************)
C23_ModifiedSinceList ==
    res.op = "GetTicketsModifiedSince" =>
        /\ res.err = OK
        /\ ListsExactly(res.val, {k \in StoredTicketKeys :
              /\ db.tickets[k] # NoRow
              /\ TimeAfter(parseTimestamp(db.tickets[k].last_modified_local),
                           res.val.since)})
        /\ DescendingByLastModifiedLocal(res.val)

\* the operations that take a key, and those that take a state
KeyedOps == {"GetTicketState", "DeleteTicketState", "GetProjectState", "DeleteProjectState"}

SaveOps == {"SaveTicketState", "SaveProjectState"}

\* the row a keyed operation called with ctx finds for its key
RowFor(op, ctx, key) ==
    IF op \in {"GetTicketState", "DeleteTicketState"}
    THEN TableOf(ctx).tickets[key]
    ELSE TableOf(ctx).projects[key]

(***************************************************************************)
(* C24: Get and Delete of a ticket or project state return EmptyKey for an *)
(* empty key and NotFound for a key without stored state, Save returns     *)
(* InvalidInput for a nil state and EmptyKey for a state with an empty     *)
(* key, and a call that returns one of these errors leaves every stored    *)
(* state as it was.                                                        *)
(***************************************************************************)
C24_ErrorOutcomes ==
    [][/\ (res'.op \in KeyedOps /\ res'.key = EmptyKey) => res'.err = ErrEmptyKey
       /\ (/\ res'.op \in KeyedOps
           /\ res'.key # EmptyKey
           /\ ~TxDone(res'.ctx)
           /\ RowFor(res'.op, res'.ctx, res'.key) = NoRow) => res'.err = ErrNotFound
       /\ (res'.op \in SaveOps /\ res'.val = NilState) => res'.err = ErrInvalidInput
       /\ (/\ res'.op \in SaveOps
           /\ res'.val # NilState
           /\ res'.key = EmptyKey) => res'.err = ErrEmptyKey
       /\ (/\ res'.op \in KeyedOps \cup SaveOps
           /\ res'.err \in {ErrNotFound, ErrEmptyKey, ErrInvalidInput})
               => /\ db' = db
                  /\ txs' = txs]_vars

\* the responses of a RoundTrip call before its last one
EarlierOutcomes == {rt.outcomes[i] : i \in 1..(Len(rt.outcomes) - 1)}

(***************************************************************************)
(* C25: RoundTrip retries only on status 429: every response but the last  *)
(* of a call is a 429, so any other status and a transport error are       *)
(* returned at once; the transport is asked at most maxRetries + 1 times,  *)
(* exactly that often when every answer is 429, and the last answer is     *)
(* what RoundTrip returns; a call that was started returns.                *)
(***************************************************************************)
C25_RetryOnlyOn429 ==
    /\ [](/\ Len(rt.outcomes) = rt.calls
          /\ rt.calls <= rt.cfg.maxRetries + 1
          /\ EarlierOutcomes \subseteq {429}
          /\ rt.pc = "returned" =>
                /\ rt.calls >= 1
                /\ rt.ret = rt.outcomes[rt.calls]
                /\ rt.ret = 429 => rt.calls = rt.cfg.maxRetries + 1)
    /\ (rt.pc = "request") ~> (rt.pc = "returned")

\* a server that always answered 429 was asked maxRetries + 1 = 4 times
C25_Witness ==
    /\ rt.pc = "returned"
    /\ rt.cfg = DefaultTransportConfig
    /\ rt.outcomes = <<429, 429, 429, 429>>
    /\ rt.ret = 429

(***************************************************************************)
(* C26: the backoff sleep of RoundTrip is cancellable: when the context of *)
(* the request is cancelled while RoundTrip waits between two attempts,    *)
(* RoundTrip does not finish the sleep and go on to the next attempt.      *)
(***************************************************************************)
C26_BackoffCancellable ==
    [][(rt.pc = "sleeping" /\ rt.cancelled)
            => /\ rt'.pc # "request"
               /\ rt'.waits = rt.waits]_vars

\* the wait of a sleep that follows the k-th: doubled, but no more than
\* maxDelay
WaitAfter(wait) ==
    IF wait * 2 > rt.cfg.maxDelay THEN rt.cfg.maxDelay ELSE wait * 2

(***************************************************************************)
(* C27: RoundTrip waits initialDelay before the first retry, before every  *)
(* later retry twice the wait before, cut to maxDelay, and never longer    *)
(* than maxDelay; with the defaults of NewClient the waits are 1s, 2s, 4s. *)
(***************************************************************************)
C27_BackoffSchedule ==
    /\ Len(rt.waits) >= 1 => rt.waits[1] = rt.cfg.initialDelay
    /\ \A k \in 1..(Len(rt.waits) - 1) : rt.waits[k + 1] = WaitAfter(rt.waits[k])
    /\ \A k \in 1..Len(rt.waits) : rt.waits[k] <= rt.cfg.maxDelay
    /\ (rt.cfg = DefaultTransportConfig /\ rt.calls = rt.cfg.maxRetries + 1)
          => rt.waits = <<1000, 2000, 4000>>

\* with the defaults three retries were made, and with the test's delays a
\* wait was cut to maxDelay
C27_Witness ==
    \/ rt.cfg = DefaultTransportConfig /\ Len(rt.waits) = 3
    \/ rt.cfg.maxDelay = 5 /\ Len(rt.waits) = 4 /\ rt.waits[4] = 5

\* the domain error the taxonomy gives for the status of a response
DomainErrorOf(status) ==
    CASE status = 404 -> ErrNotFound
      [] status \in {401, 403} -> ErrUnauthorized
      [] status = 400 -> ErrInvalidInput
      [] status = 409 -> ErrConflict
      [] OTHER -> ErrWrapped

(***************************************************************************)
(* C28: mapHTTPError maps the error of a 404 response to NotFound, of a    *)
(* 401 or 403 response to Unauthorized, of a 400 response to InvalidInput, *)
(* of a 409 response to Conflict; the error of any other response, or of   *)
(* no response, comes back wrapped and as none of these; nil maps to nil.  *)
(***************************************************************************)
C28_ErrorTaxonomy ==
    jc.op = "mapHTTPError" =>
        IF jc.err = NIL
        THEN jc.ret = OK
        ELSE jc.ret = DomainErrorOf(jc.err.status)

(***************************************************************************)
(* C29: whenever Issue.Update is rejected with status 409, the error that  *)
(* Repository.UpdateTicket returns is the domain Conflict error, whatever  *)
(* the text of the error.                                                  *)
(***************************************************************************)
C29_UpdateConflict ==
    (/\ jc.op = "UpdateTicket"
     /\ jc.err # NIL
     /\ jc.err.status = 409) => jc.ret = ErrConflict

\* the sum of the sizes of the pages fetched
RECURSIVE SumOf(_)
SumOf(sizes) == IF sizes = << >> THEN 0 ELSE Head(sizes) + SumOf(Tail(sizes))

\* the tickets of issues 1..n in their order
TicketsUpTo(n) == MappedTickets([i \in 1..n |-> i], sr.invalid)

(***************************************************************************)
(* C30: searchTickets asks for pages of 50 at offsets 0, 50, 100, ...,     *)
(* stops after the first page with fewer than 50 issues, returns the       *)
(* tickets of all pages fetched in page order, and returns for every       *)
(* finite result set, also one whose size is a multiple of 50.             *)
(***************************************************************************)
C30_Pagination ==
    /\ [](/\ \A i \in 1..Len(sr.offsets) : sr.offsets[i] = maxResults * (i - 1)
          /\ \A i \in 1..(Len(sr.sizes) - 1) : sr.sizes[i] = maxResults
          /\ sr.err = OK => sr.tickets = TicketsUpTo(SumOf(sr.sizes))
          /\ (sr.pc = "returned" /\ sr.err = OK) =>
                /\ sr.sizes[Len(sr.sizes)] < maxResults
                /\ SumOf(sr.sizes) = sr.total
                /\ Len(sr.offsets) = (sr.total \div maxResults) + 1)
    /\ (sr.pc = "searching") ~> (sr.pc = "returned")

\* a search matching exactly two full pages returned after a third, empty
\* page, with one issue skipped
C30_Witness ==
    /\ sr.pc = "returned"
    /\ sr.err = OK
    /\ sr.total = 2 * maxResults
    /\ sr.offsets = <<0, 50, 100>>
    /\ sr.invalid = {maxResults}
    /\ Len(sr.tickets) = 2 * maxResults - 1

(***************************************************************************)
(* C31: searchTickets never hands the caller a partial result: when a page *)
(* request fails it returns an error and no tickets, and when it returns   *)
(* without error the result holds one ticket for every issue of every page *)
(* fetched.                                                                *)
(***************************************************************************)
C31_NoPartialResult ==
    sr.pc = "returned" =>
        /\ sr.err # OK => sr.tickets = << >>
        /\ sr.err = OK => sr.tickets = [i \in 1..SumOf(sr.sizes) |-> i]

\* the versions recorded in schema_version
Recorded(file) == {file.rows[i] : i \in 1..Len(file.rows)}

(***************************************************************************)
(* C32: Migrate is idempotent: over any number of runs, also across        *)
(* reopened connections, each migration version is applied exactly once,   *)
(* schema_version never records a version twice, a run never fails on a    *)
(* version already applied, a run with nothing pending changes nothing,    *)
(* and after every successful run the reported version is the highest      *)
(* migration version.                                                      *)
(***************************************************************************)
C32_MigrateIdempotent ==
    /\ \A v \in 1..MaxMigrations : mg.file.applied[v] <= 1
    /\ \A i, j \in 1..Len(mg.file.rows) :
          i # j => mg.file.rows[i] # mg.file.rows[j]
    /\ mg.err \in {OK, ErrDatabase}
    /\ mg.pc = "returned" =>
          /\ 1..mg.latest \subseteq Recorded(mg.pre) => mg.file = mg.pre
          /\ mg.err = OK =>
                /\ mg.ret = mg.latest
                /\ \A v \in 1..mg.latest : mg.file.applied[v] = 1
                /\ Recorded(mg.file) = 1..mg.latest

\* the third run, on a reopened database with both migrations applied by
\* earlier runs, has returned version 2 and changed nothing
C32_Witness ==
    /\ mg.pc = "returned"
    /\ mg.err = OK
    /\ mg.runs = 3
    /\ mg.opened >= 2
    /\ mg.latest = 2
    /\ mg.ret = 2
    /\ mg.pre.rows = <<1, 2>>
    /\ mg.file = mg.pre

\* s matches [A-Z][A-Z0-9]+-\d+ with a project part of any length from 2
ClaimedKeyPattern(s) == MatchesKey(s, 1, Len(s))

SameHashedFields(t, u) ==
    /\ t.Summary = u.Summary
    /\ t.Description = u.Description
    /\ t.Status = u.Status
    /\ t.Priority = u.Priority
    /\ t.Assignee = u.Assignee
    /\ t.Labels = u.Labels
    /\ t.CustomFields = u.CustomFields

(***************************************************************************)
(* C34: ContentHash is deterministic and independent of map order: two     *)
(* tickets with the same summary, description, status, priority, assignee, *)
(* labels in the same order and the same custom field name/value pairs     *)
(* have the same digest whatever the iteration order of the custom field   *)
(* maps.                                                                   *)
(***************************************************************************)
C34_HashDeterministic ==
    (pf.op = "ContentHash" /\ SameHashedFields(pf.t1, pf.t2)) => pf.hash1 = pf.hash2

\* two tickets with the same two custom fields, iterated in opposite orders
\* and differing in the reporter only, hashed to the same digest
C34_Witness ==
    /\ pf.op = "ContentHash"
    /\ pf.t1 = FullTicket
    /\ pf.t2.Reporter # pf.t1.Reporter
    /\ SameHashedFields(pf.t1, pf.t2)
    /\ pf.order1 = <<<<"a">>, <<"b">>>>
    /\ pf.order2 = <<<<"b">>, <<"a">>>>
    /\ pf.hash1 = pf.hash2

(***************************************************************************)
(* C35: changing any single mutable field of a ticket (summary,            *)
(* description, status, issue type, priority, assignee, reporter, the      *)
(* label list or a custom field) changes the bytes fed to the digest and   *)
(* so the ContentHash: two tickets that differ in one mutable field never  *)
(* give the same digest input.                                             *)
(***************************************************************************)
C35_FieldChangeChangesHash ==
    (pf.op = "ContentHash" /\ pf.t1 # pf.t2) =>
        /\ pf.input1 # pf.input2
        /\ pf.hash1 # pf.hash2

(***************************************************************************)
(* C36: DeleteProjectState is all-or-nothing: a call that returns an error *)
(* (NotFound when no project state is stored for the key) has removed no   *)
(* ticket state, neither from the committed table when it is called with a *)
(* plain context nor from the caller's transaction, which a later Commit   *)
(* would make the stored table.                                            *)
(***************************************************************************)
C36_DeleteProjectStateAllOrNothing ==
    [][(res'.op = "DeleteProjectState" /\ res'.err # OK) =>
          /\ db'.tickets = db.tickets
          /\ \A tx \in DOMAIN txs : txs'[tx].work.tickets = txs[tx].work.tickets]_vars

(***************************************************************************)
(* C37: RecordAttempt increments Attempts by exactly 1 on every call, also *)
(* when err is nil; LastError becomes err's message when err is not nil    *)
(* and keeps its previous value when err is nil.                           *)
(***************************************************************************)
C37_RecordAttemptCounts ==
    [][\A id \in 1..MaxOps :
          (/\ pcall'.op = "RecordAttempt"
           /\ pcall'.id = id
           /\ pmon'[id].recorded = pmon[id].recorded + 1) =>
              /\ ops'[id].Attempts = ops[id].Attempts + 1
              /\ pcall'.err # OK => ops'[id].LastError = pcall'.err
              /\ pcall'.err = OK => ops'[id].LastError = ops[id].LastError]_vars

\* RecordAttempt(nil) after a failed attempt: two attempts counted, the
\* error of the first still recorded
C37_Witness ==
    /\ pcall.op = "RecordAttempt"
    /\ pcall.err = OK
    /\ ops[pcall.id].Attempts = 2
    /\ ops[pcall.id].LastError = ErrSyncConflict

(***************************************************************************)
(* C38: after NewTicketState and any sequence of MarkLocalModified,        *)
(* DetectConflict and UpdateSynced calls, with JiraUpdated changed in      *)
(* between, Status is one of in_sync, local_modified and conflict, and it  *)
(* is in_sync exactly when LocalModified is unset.                         *)
(***************************************************************************)
C38_StatusMatchesDirtiness ==
    /\ ts.Status \in {SyncStatusInSync, SyncStatusLocalModified, SyncStatusConflict}
    /\ ts.Status = SyncStatusInSync <=> ts.LocalModified = NIL

\* a conflicted state whose JiraUpdated was changed again, still conflict
\* with LocalModified set
C38_Witness ==
    /\ last.op = "SetJiraUpdated"
    /\ last.before.Status = SyncStatusConflict
    /\ last.before.JiraUpdated # ts.JiraUpdated
    /\ ts.Status = SyncStatusConflict
    /\ ts.LocalModified # NIL

(***************************************************************************)
(* C39: DetectConflict never modifies JiraUpdated, LocalModified,          *)
(* LastSynced, ContentHash or the keys, and when it returns false it       *)
(* leaves Status unchanged too: a Status of conflict set by an earlier     *)
(* call is not cleared by a later call that returns false.                 *)
(***************************************************************************)
C39_DetectConflictFrame ==
    last.op = "DetectConflict" =>
        /\ ts.JiraUpdated = last.before.JiraUpdated
        /\ ts.LocalModified = last.before.LocalModified
        /\ ts.LastSynced = last.before.LastSynced
        /\ ts.ContentHash = last.before.ContentHash
        /\ ts.ProjectKey = last.before.ProjectKey
        /\ ts.TicketKey = last.before.TicketKey
        /\ ~last.ret => ts.Status = last.before.Status

\* DetectConflict returned false on a conflicted state whose JiraUpdated is
\* no longer after LastSynced, and changed nothing
C39_Witness ==
    /\ last.op = "DetectConflict"
    /\ ~last.ret
    /\ last.before.Status = SyncStatusConflict
    /\ last.before.LocalModified # NIL
    /\ ~After(ts.JiraUpdated, ts.LastSynced)
    /\ ts = last.before

(***************************************************************************)
(* C40: CustomField.ValidateValue accepts a value iff ValidValues is empty *)
(* or the value, with leading and trailing white space trimmed, equals     *)
(* some ValidValues entry with that entry trimmed; the comparison is       *)
(* case-sensitive.                                                         *)
(***************************************************************************)
C40_ValidateValueTrims ==
    pf.op = "ValidateValue" =>
        (pf.err = OK <=>
            \/ Len(pf.validValues) = 0
            \/ \E i \in 1..Len(pf.validValues) :
                  TrimSpace(pf.value) = TrimSpace(pf.validValues[i]))

====
